---- MODULE Spec2Model ----
(***************************************************************************)
(* A model of the real-time collaboration core of openspace:               *)
(*   - the in-memory WebSocket hub (app/ws_hub.py) and the WebSocket       *)
(*     session handler that joins and leaves it (app/routers/websocket.py),*)
(*   - the optimistic-concurrency save of a text document                  *)
(*     (app/routers/text_documents.py),                                    *)
(*   - the cell patch entry points (app/routers/cells.py and the WebSocket *)
(*     patch / batch_patch handlers).                                      *)
(*                                                                         *)
(* The server is one asyncio process: a coroutine runs without             *)
(* interruption from one await to the next, so an action of the model is   *)
(* the code between two awaits.  hub.broadcast awaits once per send.       *)
(***************************************************************************)
EXTENDS Integers, Sequences, FiniteSets, TLC

VARIABLES
    rooms,      \* WSHub._rooms: room id -> set of connections (keys come and go)
    conn,       \* per WebSocket: session position, room, user, network health
    bc,         \* the calls of WSHub.broadcast made so far, each with its position
    inbox,      \* per WebSocket: the hub messages its client was sent, in order
    doc,        \* the TextDocument row: status and version
    contents,   \* TextDocumentContent rows of the document: version -> content
    docLog,     \* TextDocumentChangeLog rows of the document, in insertion order
    saving,     \* per actor: the save that has read the document and not yet committed
    wsStatus,   \* Workspace.status per workspace
    cells,      \* WorkspaceCell rows of the sheet: <<row, col>> -> fields
    changeLog,  \* ChangeLog rows, in insertion order
    sheet,      \* the WorkspaceSheet row: sheet_protected
    unflushed,  \* per WebSocket session: comments set on loaded rows, not yet committed
    lastReq     \* the request handled last and the outcome the handler decided

hubVars   == <<rooms, conn, bc, inbox>>
docVars   == <<doc, contents, docLog, saving>>
gridVars  == <<wsStatus, sheet, cells, changeLog, unflushed>>
vars      == <<rooms, conn, bc, inbox, doc, contents, docLog, saving,
               wsStatus, sheet, cells, changeLog, unflushed, lastReq>>

(***************************************************************************)
(* Bounds of the model: the WebSocket objects that may ever be created;    *)
(* the calls of hub.broadcast in one run where subscribers are modelled;   *)
(* the clients that may open a WebSocket on the text document; the saves   *)
(* that commit in one run where the document is modelled alone.            *)
(***************************************************************************)
MaxConns == 3
MaxCalls == 2
DocClients == 2
MaxSaves == 3
MaxEdits == 3           \* requests that commit in one run where the sheet is modelled alone

Conns == 1..MaxConns
NoConn == 0             \* Python None where a WebSocket is expected

(***************************************************************************)
(* Users and roles (app/rbac.py).                                          *)
(***************************************************************************)
Actors == {"user", "admin"}

Role(u) == IF u = "admin" THEN "ADMIN" ELSE "USER"

role_rank(role) ==
    CASE role = "USER" -> 0
      [] role = "ADMIN" -> 1
      [] role = "SUPER_ADMIN" -> 2
      [] OTHER -> -1

is_admin_or_above(u) == role_rank(Role(u)) >= role_rank("ADMIN")

(***************************************************************************)
(* Rooms.  A workspace room is named by the workspace id, a text document  *)
(* room by "textdoc:" followed by the document id.                         *)
(***************************************************************************)
Workspaces == {"w1", "w2"}          \* the Workspace rows that exist
NoWorkspace == "w0"                 \* an id with no Workspace row
DocId == "d1"                       \* the TextDocument row that exists
NoDoc == "d0"                       \* an id with no TextDocument row

\* A room name without the prefix.
TextDocRoom_bare(d) == d

\* save_doc, line 285
TextDocRoom(d) == "textdoc:" \o d

(***************************************************************************)
(* WSHub (app/ws_hub.py).  rooms is a function whose domain is the set of  *)
(* keys of the dict.                                                       *)
(***************************************************************************)
RoomGet(rs, r) == IF r \in DOMAIN rs THEN rs[r] ELSE {}

DictSet(rs, r, s) == [k \in DOMAIN rs \cup {r} |-> IF k = r THEN s ELSE rs[k]]

DictDel(rs, r) == [k \in DOMAIN rs \ {r} |-> rs[k]]

\* WSHub.connect: create the room on first use, add the connection.
hub_connect(rs, r, ws) == DictSet(rs, r, RoomGet(rs, r) \cup {ws})

\* WSHub.disconnect: `if room:` skips a missing (or empty) room; the room is
\* deleted when the discard empties it.
hub_disconnect(rs, r, ws) ==
    IF r \in DOMAIN rs /\ rs[r] # {}
    THEN IF rs[r] \ {ws} = {} THEN DictDel(rs, r) ELSE DictSet(rs, r, rs[r] \ {ws})
    ELSE rs

\* A cleanup that forgets to delete the emptied room.
hub_cleanup_keeps_empty(rs, r, dead) ==
    IF dead = {} \/ r \notin DOMAIN rs THEN rs ELSE DictSet(rs, r, rs[r] \ dead)

\* WSHub.broadcast, lines 48-53: the cleanup after the delivery pass.  With a
\* missing key `room` is a fresh set and nothing is stored.
hub_cleanup(rs, r, dead) ==
    IF dead = {} THEN rs
    ELSE IF r \notin DOMAIN rs THEN rs
    ELSE IF rs[r] \ dead = {} THEN DictDel(rs, r)
    ELSE DictSet(rs, r, rs[r] \ dead)

connection_count(rs, r) == Cardinality(RoomGet(rs, r))

(***************************************************************************)
(* One call of WSHub.broadcast.                                            *)
(*   pc       "send" while the delivery pass runs, "done" after cleanup,   *)
(*            "raised" if the call ended with an exception, "blocked"      *)
(*            while it waits in a send_text that does not complete         *)
(*   pending  the part of list(room) not yet iterated                      *)
(*   dead     the local set of connections whose send raised               *)
(*   members, sent, got: a record of what the call did (members of the     *)
(*            room when the call started, number of send_text calls per    *)
(*            connection, connections whose send returned normally)        *)
(*   origin   the WebSocket whose handler awaits the call, or NoConn       *)
(*   at       the connection whose send_text the call waits in, or NoConn  *)
(***************************************************************************)
NoMsg == [type |-> "none"]

\* A loop without the exclude test.
Skipped_never(x, ws) == FALSE

\* `if ws is exclude: continue`
Skipped(x, ws) == ws = x

\* The locals of a call that has just started.  The iterations that only
\* `continue` involve no await and are left out of pending.
NewBroadcast(rs, r, m, x, o) ==
    [room |-> r, msg |-> m, exclude |-> x, origin |-> o, pc |-> "send",
     pending |-> {ws \in RoomGet(rs, r) : ~Skipped(x, ws)}, dead |-> {},
     members |-> RoomGet(rs, r),
     sent |-> [c \in Conns |-> 0], got |-> {}, at |-> NoConn]

\* The loop moves on to the next element of list(room).
Advance(t, ws) == [t EXCEPT !.pending = @ \ {ws}, !.sent[ws] = @ + 1]

\* send_text returned.
SendOk(t, ws) == [Advance(t, ws) EXCEPT !.got = @ \cup {ws}]

\* A loop without the try/except: the exception of send_text ends the call.
SendFailed_raises(t, ws) == [t EXCEPT !.pc = "raised"]

\* send_text raised: `except Exception: dead.add(ws)`.
SendFailed(t, ws) == [Advance(t, ws) EXCEPT !.dead = @ \cup {ws}]

Running(t) == t.pc = "send"

\* The delivery pass of the call is over, its cleanup has not run yet.
LoopDone(t) == Running(t) /\ t.pending = {}

\* `await ws.send_text(text)` has no timeout: the call waits in it.
Blocked(t, ws) == [t EXCEPT !.pc = "blocked", !.at = ws]

\* The send the call waited in has raised.
Unblocked(t) == SendFailed([t EXCEPT !.pc = "send", !.at = NoConn], t.at)

\* The call has started and has not returned.
Waiting(t) == t.pc \in {"send", "blocked"}

\* The handler of connection c is suspended in `await hub.broadcast(...)`.
Busy(c) == \E i \in 1..Len(bc) : bc[i].origin = c /\ Waiting(bc[i])

\* The call has returned: its locals are gone.
Returned ==
    [room |-> NoWorkspace, msg |-> NoMsg, exclude |-> NoConn, origin |-> NoConn,
     pc |-> "done", pending |-> {}, dead |-> {}, members |-> {},
     sent |-> [c \in Conns |-> 0], got |-> {}, at |-> NoConn]

\* Start a call of hub.broadcast: json.dumps, room lookup, list(room).  When
\* there is nobody to send to, the call reaches its end without an await:
\* dead is empty and the call returns at once.
StartBroadcast(r, m, x, o) ==
    LET t == NewBroadcast(rooms, r, m, x, o) IN
    bc' = Append(bc, IF t.pending = {} THEN Returned ELSE t)

\* One `await ws.send_text(text)` of the loop comes to its result.  list() of
\* a set has no particular order, so any pending element may be next.
BroadcastSend(i) ==
    /\ i \in 1..Len(bc)
    /\ Running(bc[i])
    /\ \E ws \in bc[i].pending :
        IF ~conn[ws].alive
        THEN /\ bc' = [bc EXCEPT ![i] = SendFailed(bc[i], ws)]
             /\ UNCHANGED inbox
        ELSE IF conn[ws].stalled
        THEN /\ bc' = [bc EXCEPT ![i] = Blocked(bc[i], ws)]
             /\ UNCHANGED inbox
        ELSE /\ bc' = [bc EXCEPT ![i] = SendOk(bc[i], ws)]
             /\ inbox' = [inbox EXCEPT ![ws] = Append(@, bc[i].msg)]
    /\ UNCHANGED <<rooms, conn, docVars, gridVars, lastReq>>

\* The peer of the connection the call waits for has gone: the send raises
\* and the loop goes on.
BroadcastUnblock(i) ==
    /\ i \in 1..Len(bc)
    /\ bc[i].pc = "blocked"
    /\ ~conn[bc[i].at].alive
    /\ bc' = [bc EXCEPT ![i] = Unblocked(bc[i])]
    /\ UNCHANGED <<rooms, conn, inbox, docVars, gridVars, lastReq>>

\* The coroutine resumes after its last send: the loop is over, the cleanup
\* of dead connections runs (lines 47-53) and the call returns.  The lock is
\* never held across an await, so acquiring it does not suspend.
BroadcastCleanup(i) ==
    /\ i \in 1..Len(bc)
    /\ LoopDone(bc[i])
    /\ rooms' = hub_cleanup(rooms, bc[i].room, bc[i].dead)
    /\ bc' = [bc EXCEPT ![i] = Returned]
    /\ UNCHANGED <<conn, inbox, docVars, gridVars, lastReq>>

(***************************************************************************)
(* The WebSocket session (ws_endpoint).  Position of a connection:         *)
(*   "new"      not yet accepted                                           *)
(*   "rejected" closed with 4004 before accept (no such workspace)         *)
(*   "joined"   accepted and hub.connect done, 'connected' not yet sent    *)
(*   "open"     in the receive loop                                        *)
(*   "closed"   the finally block ran hub.disconnect                       *)
(*   "aborted"  sending 'connected' raised: the handler left before `try`  *)
(***************************************************************************)
NoStatus == "NONE"      \* no Workspace row loaded

NewConn ==
    [st |-> "new", room |-> NoWorkspace, user |-> "user", alive |-> TRUE,
     stalled |-> FALSE, loaded |-> NoStatus]

\* The handler has returned and the socket is closed.
Gone(st) ==
    [st |-> st, room |-> NoWorkspace, user |-> "user", alive |-> FALSE,
     stalled |-> FALSE, loaded |-> NoStatus]

\* ws_endpoint, lines 51-58.  loaded is the status of the Workspace row as the
\* session read it here.
ws_accept(c, w, u) ==
    /\ conn[c].st = "new"
    /\ \A b \in Conns : b < c => conn[b].st # "new"   \* numbered in order of arrival
    /\ IF w \in Workspaces
       THEN /\ conn' = [conn EXCEPT ![c] = [st |-> "joined", room |-> w,
                                            user |-> u, alive |-> TRUE,
                                            stalled |-> FALSE,
                                            loaded |-> wsStatus[w]]]
            /\ rooms' = hub_connect(rooms, w, c)
       ELSE /\ conn' = [conn EXCEPT ![c] = Gone("rejected")]
            /\ UNCHANGED rooms
    /\ UNCHANGED <<bc, inbox, docVars, gridVars, lastReq>>

\* ws_endpoint, lines 60-65: the initial 'connected' message, outside `try`.
\* When the send raises (the peer is already gone) the handler ends there,
\* before the try/finally that would call hub.disconnect.
ws_welcome(c, ok) ==
    /\ conn[c].st = "joined"
    /\ conn' = [conn EXCEPT ![c].st = IF ok THEN "open" ELSE "aborted",
                            ![c].alive = ok]
    /\ UNCHANGED <<rooms, bc, inbox, docVars, gridVars, lastReq>>

\* ws_endpoint, lines 96-102: receive_text raised, the finally block runs.
ws_close(c) ==
    /\ conn[c].st = "open"
    /\ ~Busy(c)
    /\ conn' = [conn EXCEPT ![c] = Gone("closed")]
    /\ rooms' = hub_disconnect(rooms, conn[c].room, c)
    /\ UNCHANGED <<bc, inbox, docVars, gridVars, lastReq>>

\* The network: the peer of an open connection stops reading and its buffers
\* fill; from then on a send on it waits.
net_stall(c) ==
    /\ conn[c].st = "open"
    /\ conn[c].alive
    /\ ~conn[c].stalled
    /\ conn' = [conn EXCEPT ![c].stalled = TRUE]
    /\ UNCHANGED <<rooms, bc, inbox, docVars, gridVars, lastReq>>

\* The network: the peer of an open connection goes away; from then on every
\* send on it raises.  The handler notices at its next receive (ws_close).
net_break(c) ==
    /\ conn[c].st = "open"
    /\ conn[c].alive
    /\ conn' = [conn EXCEPT ![c].alive = FALSE]
    /\ UNCHANGED <<rooms, bc, inbox, docVars, gridVars, lastReq>>

(***************************************************************************)
(* Any caller of hub.broadcast(room, message, exclude).                    *)
(***************************************************************************)
HubMsgs == {[type |-> "reload"]}

\* The call of hub.broadcast that the handler of an HTTP request has queued
\* starts: it publishes to a room, excluding nobody.
http_publish(r, m) ==
    /\ StartBroadcast(r, m, NoConn, NoConn)
    /\ UNCHANGED <<rooms, conn, inbox, docVars, gridVars, lastReq>>

\* The handler of a message received on connection c publishes to the room
\* of c, excluding c, and waits for the call.
ws_publish(c, m) ==
    /\ conn[c].st = "open"
    /\ ~Busy(c)
    /\ StartBroadcast(conn[c].room, m, c, c)
    /\ UNCHANGED <<rooms, conn, inbox, docVars, gridVars, lastReq>>

(***************************************************************************)
(* Text documents (app/routers/text_documents.py).  One document exists.   *)
(* Its first content row has version 1 (admin_create_doc); the model takes *)
(* the version column of the new TextDocument row to start at the same     *)
(* number.                                                                 *)
(***************************************************************************)
InitialVersion == 1
KEEP_VERSIONS == 50                 \* .offset(50) in save_doc

Contents == {"a", "b"}              \* document texts a client may submit

\* len(body.content)
ContentSize(c) == IF c = "" THEN 0 ELSE 1

MaxOf(S) == CHOOSE v \in S : \A w \in S : w <= v

\* order_by(version.desc()).first(): the content of the highest version
LatestContent(cs) == IF DOMAIN cs = {} THEN "" ELSE cs[MaxOf(DOMAIN cs)]

\* A query that orders the wrong way round: it keeps the 50 oldest rows.
OldContents_ascending(cs) ==
    {v \in DOMAIN cs : Cardinality({w \in DOMAIN cs : w < v}) >= KEEP_VERSIONS}

\* order_by(version.desc()).offset(50).all(): the rows after the first 50
OldContents(cs) ==
    {v \in DOMAIN cs : Cardinality({w \in DOMAIN cs : w > v}) >= KEEP_VERSIONS}

\* save_doc, lines 271-282: delete the old rows.
Prune(cs) == [v \in DOMAIN cs \ OldContents(cs) |-> cs[v]]

\* A comparison that only rejects a base older than the stored version.
VersionConflict_olderOnly(base, version) == base < version

\* save_doc, line 230
VersionConflict(base, version) == base # version

\* save_doc, line 226
SaveForbidden(status, u) == status = "CLOSED" /\ ~is_admin_or_above(u)

\* A handler that compares versions before it looks at the status.
SaveOutcome_conflictFirst(d, status, u, base, version) ==
    IF d # DocId THEN 404
    ELSE IF VersionConflict(base, version) THEN 409
    ELSE IF SaveForbidden(status, u) THEN 403
    ELSE 200

\* save_doc, lines 221-241: the checks in the order of the code.
SaveOutcome(d, status, u, base, version) ==
    IF d # DocId THEN 404
    ELSE IF SaveForbidden(status, u) THEN 403
    ELSE IF VersionConflict(base, version) THEN 409
    ELSE 200

\* A version counter that skips a number.
NewVersion_skips(version) == version + 2

\* save_doc, line 244
NewVersion(version) == version + 1

DocUpdated(version, content, u) ==
    [type |-> "doc_updated", version |-> version, content |-> content,
     updated_by |-> u]

SaveReq(u, d, content, base, code, version, body) ==
    [op |-> "save", actor |-> u, id |-> d, content |-> content, base |-> base,
     code |-> code, version |-> version, body |-> body]

\* A save that has passed its checks: the document, the text, the base
\* version of the request and the version the session read.
Save(d, content, base, version) ==
    [id |-> d, content |-> content, base |-> base, version |-> version]

NoSave == Save(NoDoc, "", 0, 0)

\* POST /api/text-documents/{doc_id}/save.  The handler is a coroutine with
\* no await before hub.broadcast: everything up to there is one step when no
\* thread of the pool writes the document meanwhile.
save_doc(u, d, content, base) ==
    LET code == SaveOutcome(d, doc.status, u, base, doc.version) IN
    IF code = 404 \/ code = 403
    THEN /\ lastReq' = SaveReq(u, d, content, base, code, 0, "")
         /\ UNCHANGED <<hubVars, docVars, gridVars>>
    ELSE IF code = 409
    THEN /\ lastReq' = SaveReq(u, d, content, base, 409, doc.version,
                               LatestContent(contents))
         /\ UNCHANGED <<hubVars, docVars, gridVars>>
    ELSE LET new_version == NewVersion(doc.version) IN
         /\ contents' = Prune([v \in DOMAIN contents \cup {new_version} |->
                                 IF v = new_version THEN content ELSE contents[v]])
         /\ docLog' = Append(docLog, [user |-> u, version |-> new_version,
                                      content_size |-> ContentSize(content)])
         /\ doc' = [doc EXCEPT !.version = new_version]
         /\ StartBroadcast(TextDocRoom(d), DocUpdated(new_version, content, u),
                           NoConn, NoConn)
         /\ lastReq' = SaveReq(u, d, content, base, 200, new_version, "")
         /\ UNCHANGED <<rooms, conn, inbox, saving, gridVars>>

\* A handler run on the threads of the pool: a save starts whatever the
\* others are doing.
LoopFree_threads == TRUE

\* save_doc is a coroutine (`async def`): from its first query to db.commit()
\* it holds the event loop, and no other save_doc runs.
LoopFree == \A a \in Actors : saving[a] = NoSave

\* save_doc, lines 221-241: the document is read and checked.  The handlers
\* declared with `def` (close and reopen) run on threads of the pool and may
\* run between this and the commit.
save_check(u, d, content, base) ==
    LET code == SaveOutcome(d, doc.status, u, base, doc.version) IN
    /\ LoopFree
    /\ IF code = 404 \/ code = 403
       THEN /\ lastReq' = SaveReq(u, d, content, base, code, 0, "")
            /\ UNCHANGED saving
       ELSE IF code = 409
       THEN /\ lastReq' = SaveReq(u, d, content, base, 409, doc.version,
                                  LatestContent(contents))
            /\ UNCHANGED saving
       ELSE /\ saving' = [saving EXCEPT ![u] = Save(d, content, base, doc.version)]
            /\ UNCHANGED lastReq
    /\ UNCHANGED <<hubVars, doc, contents, docLog, gridVars>>

\* save_doc, lines 243-297: the rows are added with the version the session
\* read, `doc.version = new_version` is flushed as an UPDATE of version and
\* updated_at, and the event is published.
save_commit(u) ==
    LET sv == saving[u]
        new_version == NewVersion(sv.version)
    IN
    /\ sv # NoSave
    /\ contents' = Prune([v \in DOMAIN contents \cup {new_version} |->
                            IF v = new_version THEN sv.content ELSE contents[v]])
    /\ docLog' = Append(docLog, [user |-> u, version |-> new_version,
                                 content_size |-> ContentSize(sv.content)])
    /\ doc' = [doc EXCEPT !.version = new_version]
    /\ StartBroadcast(TextDocRoom(sv.id), DocUpdated(new_version, sv.content, u),
                      NoConn, NoConn)
    /\ lastReq' = SaveReq(u, sv.id, sv.content, sv.base, 200, new_version, "")
    /\ saving' = [saving EXCEPT ![u] = NoSave]
    /\ UNCHANGED <<rooms, conn, inbox, gridVars>>

\* POST /api/admin/text-documents/{doc_id}/close (require_admin).
admin_close_doc(u) ==
    /\ is_admin_or_above(u)
    /\ doc.status # "CLOSED"
    /\ doc' = [doc EXCEPT !.status = "CLOSED"]
    /\ UNCHANGED <<hubVars, contents, docLog, saving, gridVars, lastReq>>

\* POST /api/admin/text-documents/{doc_id}/reopen (require_admin).
admin_reopen_doc(u) ==
    /\ is_admin_or_above(u)
    /\ doc.status # "OPEN"
    /\ doc' = [doc EXCEPT !.status = "OPEN"]
    /\ UNCHANGED <<hubVars, contents, docLog, saving, gridVars, lastReq>>

\* A client opens a WebSocket on the room of a text document: the hub's
\* join(room, connection).  The session then runs as in ws_endpoint.
textdoc_accept(c, d, u) ==
    /\ conn[c].st = "new"
    /\ \A b \in Conns : b < c => conn[b].st # "new"
    /\ IF d = DocId
       THEN /\ conn' = [conn EXCEPT ![c] = [st |-> "joined", room |-> TextDocRoom(d),
                                            user |-> u, alive |-> TRUE,
                                            stalled |-> FALSE,
                                            loaded |-> NoStatus]]
            /\ rooms' = hub_connect(rooms, TextDocRoom(d), c)
       ELSE /\ conn' = [conn EXCEPT ![c] = Gone("rejected")]
            /\ UNCHANGED rooms
    /\ UNCHANGED <<bc, inbox, docVars, gridVars, lastReq>>

(***************************************************************************)
(* Workspaces and cells (app/routers/workspaces.py, app/routers/cells.py,  *)
(* app/routers/websocket.py).  Workspace "w1" has one sheet; the other     *)
(* workspace has none.  A column of a row that is NULL holds None.         *)
(***************************************************************************)
None == "<None>"                    \* Python None / SQL NULL where a string is expected

MAX_ROWS == 10000
MAX_COLS == 16384

SheetId == "s1"                     \* the WorkspaceSheet row that exists
SheetWorkspace == "w1"              \* its workspace
NoSheet == "s0"                     \* an id with no WorkspaceSheet row

\* The WorkspaceSheet query of the three patch entry points.
SheetFound(w, s) == s = SheetId /\ w = SheetWorkspace

\* TemplateColumn.is_readonly of the sheet's template: the readonly columns.
ReadonlyCols == {1}

\* `0 <= row < MAX_ROWS`
InRows(row) == 0 <= row /\ row < MAX_ROWS

\* `0 <= p.col < MAX_COLS`
InCols(col) == 0 <= col /\ col < MAX_COLS

\* `ws.status == "CLOSED" and not is_admin_or_above(user)`
WorkspaceLocked(status, u) == status = "CLOSED" /\ ~is_admin_or_above(u)

\* json.loads(style).get("locked"); a style that is not a JSON object raises
\* and is taken as not locked.
LockedStyle == "{\"locked\": true}"

StyleLocked(style) == style = LockedStyle

\* Truthiness of an optional string.
Truthy(s) == s # None /\ s # ""

\* `comment if comment else None`
OrNone(s) == IF Truthy(s) THEN s ELSE None

\* str.strip() and str.lower() on the characters hyperlinks are made of.
RECURSIVE LStrip(_)
LStrip(s) == IF Len(s) > 0 /\ SubSeq(s, 1, 1) = " " THEN LStrip(SubSeq(s, 2, Len(s))) ELSE s

RECURSIVE RStrip(_)
RStrip(s) ==
    IF Len(s) > 0 /\ SubSeq(s, Len(s), Len(s)) = " "
    THEN RStrip(SubSeq(s, 1, Len(s) - 1)) ELSE s

Strip(s) == RStrip(LStrip(s))

LowerChar(ch) ==
    CASE ch = "A" -> "a" [] ch = "B" -> "b" [] ch = "C" -> "c" [] ch = "D" -> "d"
      [] ch = "E" -> "e" [] ch = "F" -> "f" [] ch = "G" -> "g" [] ch = "H" -> "h"
      [] ch = "I" -> "i" [] ch = "J" -> "j" [] ch = "K" -> "k" [] ch = "L" -> "l"
      [] ch = "M" -> "m" [] ch = "N" -> "n" [] ch = "O" -> "o" [] ch = "P" -> "p"
      [] ch = "Q" -> "q" [] ch = "R" -> "r" [] ch = "S" -> "s" [] ch = "T" -> "t"
      [] ch = "U" -> "u" [] ch = "V" -> "v" [] ch = "W" -> "w" [] ch = "X" -> "x"
      [] ch = "Y" -> "y" [] ch = "Z" -> "z" [] OTHER -> ch

RECURSIVE Lower(_)
Lower(s) == IF Len(s) = 0 THEN s ELSE LowerChar(SubSeq(s, 1, 1)) \o Lower(SubSeq(s, 2, Len(s)))

StartsWith(s, prefix) == Len(s) >= Len(prefix) /\ SubSeq(s, 1, Len(prefix)) = prefix

AllowedProtos == {"http://", "https://", "mailto:", "#"}

\* A handler without the protocol check: it stores what it was sent, stripped.
SafeHyperlink_unchecked(hyperlink) ==
    IF hyperlink = None THEN None
    ELSE IF Strip(hyperlink) # "" THEN Strip(hyperlink) ELSE None

\* _apply_patches, lines 107-112: the hyperlink that is stored.
SafeHyperlink(hyperlink) ==
    IF hyperlink = None THEN None
    ELSE LET hl == Strip(hyperlink) IN
         IF hl # "" /\ \E proto \in AllowedProtos : StartsWith(Lower(hl), proto)
         THEN hl ELSE None

\* A patch as a client submits it; a field the client leaves out is None.
Patch(row, col, value, style, comment, hyperlink) ==
    [row |-> row, col |-> col, value |-> value, style |-> style,
     comment |-> comment, hyperlink |-> hyperlink]

Coord(p) == <<p.row, p.col>>

\* Assignment to a column of a row when the submitted field is not None.
Unless(new, old) == IF new # None THEN new ELSE old

(***************************************************************************)
(* The work of one handler on its SQLAlchemy session, up to the commit.    *)
(* The session does not autoflush (database.py): a query sees the rows of  *)
(* the database, with the pending changes of the objects it has loaded,    *)
(* but not the rows added since the last commit.                           *)
(*   rows     the rows of the sheet as the session sees them               *)
(*   added    the new rows of db.add, in order: <<coordinate, fields>>      *)
(*   log      the ChangeLog rows of db.add, in order                       *)
(*   applied  the list the handler builds                                  *)
(***************************************************************************)
Work(rows) == [rows |-> rows, added |-> << >>, log |-> << >>, applied |-> << >>]

OldValue(wk, p) == IF Coord(p) \in DOMAIN wk.rows THEN wk.rows[Coord(p)].value ELSE None

LogEntry(w, s, u, p, old) ==
    [workspace_id |-> w, sheet_id |-> s, user_id |-> u, row_index |-> p.row,
     col_index |-> p.col, old_value |-> old, new_value |-> p.value]

\* A handler that logs every patch that carries a value.
Logged_everyValue(wk, w, s, u, p) ==
    IF p.value # None
    THEN Append(wk.log, LogEntry(w, s, u, p, OldValue(wk, p)))
    ELSE wk.log

\* `if p.value is not None and old_value != p.value: db.add(ChangeLog(...))`
Logged(wk, w, s, u, p) ==
    IF p.value # None /\ OldValue(wk, p) # p.value
    THEN Append(wk.log, LogEntry(w, s, u, p, OldValue(wk, p)))
    ELSE wk.log

\* _apply_patches, lines 76-97: the patches the HTTP loop passes over.
http_skips(wk, p, u, protected) ==
    \/ ~InRows(p.row)
    \/ ~InCols(p.col)
    \/ (p.col \in ReadonlyCols /\ ~is_admin_or_above(u))
    \/ /\ protected /\ ~is_admin_or_above(u)
       /\ Coord(p) \in DOMAIN wk.rows
       /\ Truthy(wk.rows[Coord(p)].style)
       /\ StyleLocked(wk.rows[Coord(p)].style)

\* _apply_patches, lines 99-151: one patch that is not passed over.
http_apply(wk, w, s, u, p) ==
    LET k == Coord(p)
        entry == [row |-> p.row, col |-> p.col, value |-> p.value, style |-> p.style,
                  comment |-> p.comment, hyperlink |-> p.hyperlink]
        fresh == [value |-> p.value, style |-> p.style, comment |-> OrNone(p.comment),
                  hyperlink |-> SafeHyperlink(p.hyperlink)]
    IN  [rows |-> IF k \in DOMAIN wk.rows
                  THEN [wk.rows EXCEPT ![k] =
                          [value |-> Unless(p.value, @.value),
                           style |-> Unless(p.style, @.style),
                           comment |-> IF p.comment # None THEN OrNone(p.comment)
                                       ELSE @.comment,
                           hyperlink |-> IF p.hyperlink # None
                                         THEN SafeHyperlink(p.hyperlink)
                                         ELSE @.hyperlink]]
                  ELSE wk.rows,
         added |-> IF k \in DOMAIN wk.rows THEN wk.added
                   ELSE Append(wk.added, <<k, fresh>>),
         log |-> Logged(wk, w, s, u, p),
         applied |-> Append(wk.applied, entry)]

RECURSIVE http_loop(_, _, _, _, _, _, _)
http_loop(wk, w, s, u, patches, i, protected) ==
    IF i > Len(patches) THEN wk
    ELSE http_loop(IF http_skips(wk, patches[i], u, protected) THEN wk
                   ELSE http_apply(wk, w, s, u, patches[i]),
                   w, s, u, patches, i + 1, protected)

\* _handle_batch_patch, lines 239-242: the patches the WebSocket loop passes over.
ws_skips(p, u) ==
    \/ ~InRows(p.row)
    \/ (p.col \in ReadonlyCols /\ ~is_admin_or_above(u))

\* _handle_patch, lines 142-186 and _handle_batch_patch, lines 244-284: one
\* patch that is not passed over.  withComment is FALSE for _handle_patch,
\* which leaves the comment to the code after its commit.
ws_apply(wk, w, s, u, p, withComment) ==
    LET k == Coord(p)
        entry == [row |-> p.row, col |-> p.col, value |-> p.value, style |-> p.style,
                  comment |-> p.comment]
        fresh == [value |-> p.value, style |-> p.style,
                  comment |-> IF withComment THEN OrNone(p.comment) ELSE None,
                  hyperlink |-> None]
    IN  [rows |-> IF k \in DOMAIN wk.rows
                  THEN [wk.rows EXCEPT ![k] =
                          [value |-> Unless(p.value, @.value),
                           style |-> Unless(p.style, @.style),
                           comment |-> IF withComment /\ p.comment # None
                                       THEN OrNone(p.comment) ELSE @.comment,
                           hyperlink |-> @.hyperlink]]
                  ELSE wk.rows,
         added |-> IF k \in DOMAIN wk.rows THEN wk.added
                   ELSE Append(wk.added, <<k, fresh>>),
         log |-> Logged(wk, w, s, u, p),
         applied |-> Append(wk.applied, entry)]

RECURSIVE ws_loop(_, _, _, _, _, _)
ws_loop(wk, w, s, u, patches, i) ==
    IF i > Len(patches) THEN wk
    ELSE ws_loop(IF ws_skips(patches[i], u) THEN wk
                 ELSE ws_apply(wk, w, s, u, patches[i], TRUE),
                 w, s, u, patches, i + 1)

\* db.commit() fails with an IntegrityError when two of the added rows have
\* the same coordinate: UniqueConstraint(sheet_id, row_index, col_index).
CommitFails(wk) ==
    \E i, j \in 1..Len(wk.added) : i < j /\ wk.added[i][1] = wk.added[j][1]

\* The rows of the sheet after a commit that succeeds.
Committed(wk) ==
    LET new == {wk.added[i][1] : i \in 1..Len(wk.added)} IN
    [k \in DOMAIN wk.rows \cup new |->
        IF k \in DOMAIN wk.rows THEN wk.rows[k]
        ELSE wk.added[CHOOSE i \in 1..Len(wk.added) : wk.added[i][1] = k][2]]

\* The rows as the session of connection c sees them: the rows of the
\* database, with the comments _handle_patch has set on loaded objects after
\* its commit and that no commit of the session has written yet.
SessionRows(c) ==
    [k \in DOMAIN cells |->
        IF k \in DOMAIN unflushed[c]
        THEN [cells[k] EXCEPT !.comment = unflushed[c][k]]
        ELSE cells[k]]

(***************************************************************************)
(* asyncio.create_task(hub.broadcast(room, message)): the call is queued   *)
(* and starts when the event loop gets to the task; the handler that       *)
(* created it does not wait.                                               *)
(***************************************************************************)
Scheduled(r, m) ==
    [room |-> r, msg |-> m, exclude |-> NoConn, origin |-> NoConn,
     pc |-> "scheduled", pending |-> {}, dead |-> {}, members |-> {},
     sent |-> [c \in Conns |-> 0], got |-> {}, at |-> NoConn]

CreateTask(r, m) == bc' = Append(bc, Scheduled(r, m))

\* The event loop runs the first step of a queued call.
TaskStart(i) ==
    /\ i \in 1..Len(bc)
    /\ bc[i].pc = "scheduled"
    /\ LET t == NewBroadcast(rooms, bc[i].room, bc[i].msg, NoConn, NoConn) IN
       bc' = [bc EXCEPT ![i] = IF t.pending = {} THEN Returned ELSE t]
    /\ UNCHANGED <<rooms, conn, inbox, docVars, gridVars, lastReq>>

(***************************************************************************)
(* Close and reopen of a workspace (require_admin).                        *)
(***************************************************************************)
StatusReq(op, u, w, code) == [op |-> op, actor |-> u, ws |-> w, code |-> code]

StatusMsg(status) == [type |-> "workspace_status", status |-> status]

\* POST /api/admin/workspaces/{workspace_id}/close
close_workspace(u, w) ==
    LET code == IF ~is_admin_or_above(u) THEN 403
                ELSE IF w \notin Workspaces THEN 404
                ELSE IF wsStatus[w] = "CLOSED" THEN 400
                ELSE 200 IN
    /\ lastReq' = StatusReq("close_workspace", u, w, code)
    /\ IF code = 200
       THEN /\ wsStatus' = [wsStatus EXCEPT ![w] = "CLOSED"]
            /\ CreateTask(w, StatusMsg("CLOSED"))
       ELSE UNCHANGED <<wsStatus, bc>>
    /\ UNCHANGED <<rooms, conn, inbox, docVars, sheet, cells, changeLog, unflushed>>

\* POST /api/admin/workspaces/{workspace_id}/reopen
reopen_workspace(u, w) ==
    LET code == IF ~is_admin_or_above(u) THEN 403
                ELSE IF w \notin Workspaces THEN 404
                ELSE 200 IN
    /\ lastReq' = StatusReq("reopen_workspace", u, w, code)
    /\ IF code = 200
       THEN /\ wsStatus' = [wsStatus EXCEPT ![w] = "OPEN"]
            /\ CreateTask(w, StatusMsg("OPEN"))
       ELSE UNCHANGED <<wsStatus, bc>>
    /\ UNCHANGED <<rooms, conn, inbox, docVars, sheet, cells, changeLog, unflushed>>

(***************************************************************************)
(* The three patch entry points.                                           *)
(***************************************************************************)
PatchReq(op, u, c, w, s, patches, code, error, applied) ==
    [op |-> op, actor |-> u, conn |-> c, ws |-> w, sheet |-> s, patches |-> patches,
     code |-> code, error |-> error, applied |-> applied]

BatchMsg(s, applied, u) ==
    [type |-> "batch_patch", sheet_id |-> s, patches |-> applied, updated_by |-> u]

PatchMsg(s, p, u) ==
    [type |-> "patch", sheet_id |-> s, row |-> p.row, col |-> p.col,
     value |-> p.value, style |-> p.style, comment |-> p.comment, updated_by |-> u]

\* _apply_patches, lines 49-62: the checks before the loop.
apply_patches_code(u, w, s) ==
    IF w \notin Workspaces THEN 404
    ELSE IF ~SheetFound(w, s) THEN 404
    ELSE IF WorkspaceLocked(wsStatus[w], u) THEN 403
    ELSE 200

\* POST /api/workspaces/{workspace_id}/sheets/{sheet_id}/patches:
\* _apply_patches, then the batch_patch event when something was applied.
\* A commit that fails ends the request with status 500 and rolls back.
http_patches(u, w, s, patches) ==
    LET code == apply_patches_code(u, w, s)
        wk == http_loop(Work(cells), w, s, u, patches, 1, sheet.protected)
    IN
    /\ IF code # 200
       THEN /\ lastReq' = PatchReq("http_patches", u, NoConn, w, s, patches, code,
                                   "", << >>)
            /\ UNCHANGED <<cells, changeLog, bc>>
       ELSE IF CommitFails(wk)
       THEN /\ lastReq' = PatchReq("http_patches", u, NoConn, w, s, patches, 500,
                                   "IntegrityError", << >>)
            /\ UNCHANGED <<cells, changeLog, bc>>
       ELSE /\ cells' = Committed(wk)
            /\ changeLog' = changeLog \o wk.log
            /\ lastReq' = PatchReq("http_patches", u, NoConn, w, s, patches, 200,
                                   "", wk.applied)
            /\ IF wk.applied # << >>
               THEN CreateTask(w, BatchMsg(s, wk.applied, u))
               ELSE UNCHANGED bc
    /\ UNCHANGED <<rooms, conn, inbox, docVars, wsStatus, sheet, unflushed>>

\* A WebSocket handler answers with an error message and returns to the
\* receive loop.  When the send raises (the peer is gone) the exception ends
\* the receive loop and the finally block of ws_endpoint runs hub.disconnect.
ws_error(c, req) ==
    /\ lastReq' = req
    /\ IF conn[c].alive
       THEN UNCHANGED <<rooms, conn>>
       ELSE /\ conn' = [conn EXCEPT ![c] = Gone("closed")]
            /\ rooms' = hub_disconnect(rooms, conn[c].room, c)
    /\ UNCHANGED <<bc, inbox, docVars, gridVars>>

\* An exception leaves the handler: `except Exception` of ws_endpoint, then
\* the finally block; the session, with what it has not committed, is closed.
ws_raise(c, req) ==
    /\ lastReq' = req
    /\ conn' = [conn EXCEPT ![c] = Gone("closed")]
    /\ rooms' = hub_disconnect(rooms, conn[c].room, c)
    /\ UNCHANGED <<bc, inbox, docVars, gridVars>>

\* A handler that trusts the Workspace row as the session loaded it when the
\* connection was opened.
RefreshedStatus_stale(c) == conn[c].loaded

\* db.refresh(ws_obj): the status of the Workspace row now.  The handler reads
\* it at once and never again without another refresh.
RefreshedStatus(c) == wsStatus[conn[c].room]

\* _handle_patch, lines 111-136: the checks before the row is looked up, in
\* the order of the code.
handle_patch_error(u, w, s, p, status) ==
    IF s = None THEN "Missing fields"
    ELSE IF WorkspaceLocked(status, u) THEN "Workspace is closed"
    ELSE IF ~SheetFound(w, s) THEN "Sheet not found"
    ELSE IF p.col \in ReadonlyCols /\ ~is_admin_or_above(u) THEN "Column is readonly"
    ELSE IF ~InRows(p.row) THEN "Row out of range"
    ELSE ""

\* A message {"type": "patch", ...} received on connection c.
handle_patch(c, s, p) ==
    LET u == conn[c].user
        w == conn[c].room
        error == handle_patch_error(u, w, s, p, RefreshedStatus(c))
        wk == ws_apply(Work(SessionRows(c)), w, s, u, p, FALSE)
        k == Coord(p)
    IN
    /\ conn[c].st = "open"
    /\ ~Busy(c)
    /\ IF error # ""
       THEN ws_error(c, PatchReq("patch", u, c, w, s, <<p>>, 0, error, << >>))
       ELSE /\ cells' = Committed(wk)
            /\ changeLog' = changeLog \o wk.log
            /\ unflushed' = [unflushed EXCEPT ![c] =
                                IF p.comment # None /\ k \in DOMAIN cells
                                THEN (k :> OrNone(p.comment)) ELSE << >>]
            /\ lastReq' = PatchReq("patch", u, c, w, s, <<p>>, 0, "", wk.applied)
            /\ StartBroadcast(w, PatchMsg(s, p, u), c, c)
            /\ UNCHANGED <<rooms, conn, inbox, docVars, wsStatus, sheet>>

\* _handle_batch_patch, lines 206-221: the checks before the loop.
handle_batch_patch_error(u, w, s, patches, status) ==
    IF ~Truthy(s) \/ patches = << >> THEN "Missing fields"
    ELSE IF WorkspaceLocked(status, u) THEN "Workspace is closed"
    ELSE IF ~SheetFound(w, s) THEN "Sheet not found"
    ELSE ""

\* A message {"type": "batch_patch", ...} received on connection c.
handle_batch_patch(c, s, patches) ==
    LET u == conn[c].user
        w == conn[c].room
        error == handle_batch_patch_error(u, w, s, patches, RefreshedStatus(c))
        wk == ws_loop(Work(SessionRows(c)), w, s, u, patches, 1)
    IN
    /\ conn[c].st = "open"
    /\ ~Busy(c)
    /\ IF error # ""
       THEN ws_error(c, PatchReq("batch_patch", u, c, w, s, patches, 0, error, << >>))
       ELSE IF CommitFails(wk)
       THEN ws_raise(c, PatchReq("batch_patch", u, c, w, s, patches, 0,
                                 "IntegrityError", << >>))
       ELSE /\ cells' = Committed(wk)
            /\ changeLog' = changeLog \o wk.log
            /\ unflushed' = [unflushed EXCEPT ![c] = << >>]
            /\ lastReq' = PatchReq("batch_patch", u, c, w, s, patches, 0, "",
                                   wk.applied)
            /\ IF wk.applied # << >>
               THEN StartBroadcast(w, BatchMsg(s, wk.applied, u), c, c)
               ELSE UNCHANGED bc
            /\ UNCHANGED <<rooms, conn, inbox, docVars, wsStatus, sheet>>

(***************************************************************************)
(* Rows and columns inserted and deleted.  Each handler moves the cells    *)
(* with UPDATE statements inside its transaction; the database checks      *)
(* UniqueConstraint(sheet_id, row_index, col_index) as each row is         *)
(* written, so a statement that puts a cell on an occupied coordinate      *)
(* raises IntegrityError and the request ends with status 500, rolled      *)
(* back.  The axis of an operation is 1 for rows and 2 for columns, the    *)
(* position of the index in a coordinate <<row, col>>.                     *)
(***************************************************************************)
StagingOffset == 100000
RestoreBelow == 0 - 90000
ROW_INSERT_MAX == 100
COL_INSERT_MAX == 50
LastColumnLetter == 18278          \* get_column_letter raises ValueError outside 1..18278

\* The cells after the rows of DOMAIN to have been written to their new
\* coordinates.
Remapped(cs, to) ==
    LET targets == {to[k] : k \in DOMAIN to} IN
    [k2 \in (DOMAIN cs \ DOMAIN to) \cup targets |->
        IF k2 \in targets THEN cs[CHOOSE k \in DOMAIN to : to[k] = k2] ELSE cs[k2]]

\* A cell is written onto a cell that does not move, or two cells are
\* written onto one coordinate.
Collides(cs, to) ==
    \/ \E k \in DOMAIN to : to[k] \in DOMAIN cs \ DOMAIN to
    \/ \E k1, k2 \in DOMAIN to : k1 # k2 /\ to[k1] = to[k2]

\* A cell is written onto the coordinate another moving cell has before the
\* statement: it collides if that cell has not been written yet.
MayCollide(cs, to) ==
    \E k1, k2 \in DOMAIN to : k1 # k2 /\ to[k1] = k2

\* `.where(index >= from).values(index = index - 100000)`
Staged(cs, axis, from) ==
    [k \in {x \in DOMAIN cs : x[axis] >= from} |-> [k EXCEPT ![axis] = @ - StagingOffset]]

\* `.where(index < -90000).values(index = index + 100000 + count)`
Restored(cs, axis, count) ==
    [k \in {x \in DOMAIN cs : x[axis] < RestoreBelow} |->
        [k EXCEPT ![axis] = @ + StagingOffset + count]]

\* `offset = sum(1 for d in indices if d < original)`
Offset(indices, original) == Cardinality({d \in indices : d < original})

\* delete_rows, lines 469-475: the loop over the cells with index < -90000.
PlacedBack(cs, axis, indices) ==
    [k \in {x \in DOMAIN cs : x[axis] < RestoreBelow} |->
        [k EXCEPT ![axis] = (@ + StagingOffset) - Offset(indices, @ + StagingOffset)]]

\* `.filter(index == i).delete()` for each i of indices.
Without(cs, axis, indices) ==
    [k \in {x \in DOMAIN cs : x[axis] \notin indices} |-> cs[k]]

\* `count = max(1, min(body.count, 100))`
InsertCount(count, most) ==
    LET least == IF count < most THEN count ELSE most IN
    IF least > 1 THEN least ELSE 1

\* The two UPDATE statements of an insert.  unlucky: the database writes the
\* rows of a statement in an order in which a cell lands on one not yet moved.
InsertWork(cs, axis, at, count, unlucky) ==
    LET to1 == Staged(cs, axis, at)
        c1 == Remapped(cs, to1)
        to2 == Restored(c1, axis, count)
    IN  [cells |-> Remapped(c1, to2),
         fails |-> \/ Collides(cs, to1)
                   \/ Collides(c1, to2)
                   \/ unlucky /\ (MayCollide(cs, to1) \/ MayCollide(c1, to2))]

\* The statements of a delete: the DELETEs, the staging UPDATE, and the
\* UPDATEs of the loop, which the commit flushes one row at a time.
DeleteWork(cs, axis, indices, unlucky) ==
    LET first_deleted == CHOOSE d \in indices : \A x \in indices : d <= x
        c0 == Without(cs, axis, indices)
        to1 == Staged(c0, axis, first_deleted + 1)
        c1 == Remapped(c0, to1)
        to2 == PlacedBack(c1, axis, indices)
    IN  [cells |-> Remapped(c1, to2),
         fails |-> \/ Collides(c0, to1)
                   \/ Collides(c1, to2)
                   \/ unlucky /\ (MayCollide(c0, to1) \/ MayCollide(c1, to2))]

\* A merged range as range_boundaries returns it (1-based); the sheet keeps
\* it as text, "A6:B7" for Merge(1, 6, 2, 7).
Merge(min_col, min_row, max_col, max_row) ==
    [min_col |-> min_col, min_row |-> min_row, max_col |-> max_col, max_row |-> max_row]

\* A text range_boundaries cannot read ("?" for one): it raises.
BadRange == Merge(0, 0, 0, 0)
Parses(m) == m # BadRange

\* The bounds of a range on an axis, and the range with those bounds.
Low(m, axis) == IF axis = 1 THEN m.min_row ELSE m.min_col
High(m, axis) == IF axis = 1 THEN m.max_row ELSE m.max_col
WithBounds(m, axis, lo, hi) ==
    IF axis = 1 THEN [m EXCEPT !.min_row = lo, !.max_row = hi]
    ELSE [m EXCEPT !.min_col = lo, !.max_col = hi]

\* A rewrite that keeps a range of one cell.
Rebuilt_keepsOneCell(m, m2) ==
    IF \E c \in {m2.min_col, m2.max_col} : c < 1 \/ c > LastColumnLetter THEN <<m>>
    ELSE <<m2>>

\* Lines 688-693 and 722-727: the range is written back as text, dropped
\* when both corners are one cell, kept as it was when get_column_letter
\* raises.
Rebuilt(m, m2) ==
    IF \E c \in {m2.min_col, m2.max_col} : c < 1 \/ c > LastColumnLetter THEN <<m>>
    ELSE IF m2.min_col = m2.max_col /\ m2.min_row = m2.max_row THEN << >>
    ELSE <<m2>>

\* One range of _shift_merges (axis 1) and _shift_merges_col (axis 2):
\* the ranges it leaves in the updated list.  at is 0-based.
ShiftedMerge(m, axis, at, shift) ==
    LET lo == Low(m, axis)
        hi == High(m, axis)
    IN  IF ~Parses(m) THEN <<m>>
        ELSE IF shift > 0
        THEN Rebuilt(m, WithBounds(m, axis,
                                   IF lo > at THEN lo + shift ELSE lo,
                                   IF hi > at THEN hi + shift ELSE hi))
        ELSE IF lo <= at + 1 /\ at + 1 <= hi
        THEN IF hi - lo = 0 THEN << >>
             ELSE Rebuilt(m, WithBounds(m, axis, lo, hi - 1))
        ELSE IF at + 1 < lo
        THEN Rebuilt(m, WithBounds(m, axis, lo - 1, hi - 1))
        ELSE Rebuilt(m, m)

RECURSIVE shift_merges(_, _, _, _, _)
shift_merges(merges, axis, at, shift, i) ==
    IF i > Len(merges) THEN << >>
    ELSE ShiftedMerge(merges[i], axis, at, shift) \o
         shift_merges(merges, axis, at, shift, i + 1)

\* `for ri in reversed(indices): merges = _shift_merges(merges, ri, -1)`
RECURSIVE delete_merges(_, _, _)
delete_merges(merges, axis, indices) ==
    IF indices = {} THEN merges
    ELSE LET last == CHOOSE d \in indices : \A x \in indices : x <= d IN
         delete_merges(shift_merges(merges, axis, last, 0 - 1, 1), axis, indices \ {last})

\* insert_rows, lines 394-404: the row heights re-keyed.
InsertedHeights(rh, at, count) ==
    [r \in {IF ri >= at THEN ri + count ELSE ri : ri \in DOMAIN rh} |->
        IF r - count \in DOMAIN rh /\ r - count >= at THEN rh[r - count] ELSE rh[r]]

\* delete_rows, lines 488-498: the row heights without the deleted rows,
\* re-keyed.
DeletedHeights(rh, indices) ==
    LET kept == {ri \in DOMAIN rh : ri \notin indices} IN
    [r \in {ri - Offset(indices, ri) : ri \in kept} |->
        rh[CHOOSE ri \in kept : ri - Offset(indices, ri) = r]]

\* A session that commits after each statement keeps what was written
\* before the failure.
RolledBack_keepsWritten(before, written) == written

\* get_db: the request ends with an exception before db.commit(); db.close()
\* rolls the transaction back.
RolledBack(before, written) == before

StructReq(op, u, w, s, at, count, indices, code, error) ==
    [op |-> op, actor |-> u, ws |-> w, sheet |-> s, at |-> at, count |-> count,
     indices |-> indices, code |-> code, error |-> error]

\* Lines 352-363 (and the same lines of the other three handlers).
struct_code(u, w, s) ==
    IF w \notin Workspaces THEN 404
    ELSE IF WorkspaceLocked(wsStatus[w], u) THEN 403
    ELSE IF ~SheetFound(w, s) THEN 404
    ELSE 200

\* A handler that asks for a reload after an insert.
InsertMsg_reload(type, s, axis, at, count, u) == [type |-> "reload", updated_by |-> u]

InsertMsg(type, s, axis, at, count, u) ==
    IF axis = 1
    THEN [type |-> type, sheet_id |-> s, row_index |-> at, count |-> count,
          updated_by |-> u, tab_id |-> ""]
    ELSE [type |-> type, sheet_id |-> s, col_index |-> at, count |-> count,
          updated_by |-> u, tab_id |-> ""]

DeleteMsg(type, s, axis, indices, u) ==
    IF axis = 1
    THEN [type |-> type, sheet_id |-> s, row_indices |-> indices, updated_by |-> u,
          tab_id |-> ""]
    ELSE [type |-> type, sheet_id |-> s, col_indices |-> indices, updated_by |-> u,
          tab_id |-> ""]

\* The part the two insert handlers share.
insert_request(op, axis, u, w, s, at, count, unlucky) ==
    LET code == struct_code(u, w, s)
        wk == InsertWork(cells, axis, at, count, unlucky)
    IN
    /\ IF code # 200
       THEN /\ lastReq' = StructReq(op, u, w, s, at, count, {}, code, "")
            /\ UNCHANGED <<cells, sheet, bc>>
       ELSE IF wk.fails
       THEN /\ lastReq' = StructReq(op, u, w, s, at, count, {}, 500, "IntegrityError")
            /\ cells' = RolledBack(cells, wk.cells)
            /\ UNCHANGED <<sheet, bc>>
       ELSE /\ cells' = wk.cells
            /\ sheet' = [sheet EXCEPT
                            !.merges = shift_merges(@, axis, at, count, 1),
                            !.row_heights = IF axis = 1
                                            THEN InsertedHeights(@, at, count) ELSE @]
            /\ lastReq' = StructReq(op, u, w, s, at, count, {}, 200, "")
            /\ CreateTask(w, InsertMsg(op, s, axis, at, count, u))
    /\ UNCHANGED <<rooms, conn, inbox, docVars, wsStatus, changeLog, unflushed>>

\* The part the two delete handlers share.
delete_request(op, axis, u, w, s, indices, unlucky) ==
    LET code == struct_code(u, w, s)
        wk == DeleteWork(cells, axis, indices, unlucky)
    IN
    /\ IF code # 200
       THEN /\ lastReq' = StructReq(op, u, w, s, 0, 0, indices, code, "")
            /\ UNCHANGED <<cells, sheet, bc>>
       ELSE IF indices = {}
       THEN /\ lastReq' = StructReq(op, u, w, s, 0, 0, indices, 200, "")
            /\ UNCHANGED <<cells, sheet, bc>>
       ELSE IF wk.fails
       THEN /\ lastReq' = StructReq(op, u, w, s, 0, 0, indices, 500, "IntegrityError")
            /\ cells' = RolledBack(cells, wk.cells)
            /\ UNCHANGED <<sheet, bc>>
       ELSE /\ cells' = wk.cells
            /\ sheet' = [sheet EXCEPT
                            !.merges = delete_merges(@, axis, indices),
                            !.row_heights = IF axis = 1
                                            THEN DeletedHeights(@, indices) ELSE @]
            /\ lastReq' = StructReq(op, u, w, s, 0, 0, indices, 200, "")
            /\ CreateTask(w, DeleteMsg(op, s, axis, indices, u))
    /\ UNCHANGED <<rooms, conn, inbox, docVars, wsStatus, changeLog, unflushed>>

\* POST /api/workspaces/{workspace_id}/sheets/{sheet_id}/rows/insert
\* (body.direction is not read.)
insert_rows(u, w, s, row_index, count, unlucky) ==
    insert_request("row_insert", 1, u, w, s, row_index,
                   InsertCount(count, ROW_INSERT_MAX), unlucky)

\* `indices = sorted(set(body.row_indices))`: the list without its order and
\* its duplicates.  The loops over indices take its elements in ascending
\* (or, reversed, descending) order.
Indices(row_indices) == {row_indices[i] : i \in DOMAIN row_indices}

\* POST /api/workspaces/{workspace_id}/sheets/{sheet_id}/rows/delete
delete_rows(u, w, s, row_indices, unlucky) ==
    delete_request("row_delete", 1, u, w, s, row_indices, unlucky)

\* POST /api/workspaces/{workspace_id}/sheets/{sheet_id}/cols/insert
insert_cols(u, w, s, col_index, count, direction, unlucky) ==
    insert_request("col_insert", 2, u, w, s,
                   IF direction = "before" THEN col_index ELSE col_index + 1,
                   InsertCount(count, COL_INSERT_MAX), unlucky)

\* POST /api/workspaces/{workspace_id}/sheets/{sheet_id}/cols/delete
delete_cols(u, w, s, col_indices, unlucky) ==
    delete_request("col_delete", 2, u, w, s, col_indices, unlucky)

(***************************************************************************)
(* The administrator's sheet settings.  The lists and maps of the request  *)
(* are stored as sent, without a check.                                    *)
(***************************************************************************)
ConfigReq(op, u, w, s, code) ==
    [op |-> op, actor |-> u, ws |-> w, sheet |-> s, code |-> code, error |-> ""]

ConfigMsg(s, u) ==
    [type |-> "sheet_config_updated", sheet_id |-> s, updated_by |-> u, tab_id |-> ""]

\* require_admin, then the sheet lookup.
config_code(u, w, s) ==
    IF ~is_admin_or_above(u) THEN 403
    ELSE IF ~SheetFound(w, s) THEN 404
    ELSE 200

\* PATCH /api/admin/workspaces/{workspace_id}/sheets/{sheet_id}/merges
update_ws_sheet_merges(u, w, s, merges) ==
    LET code == config_code(u, w, s) IN
    /\ lastReq' = ConfigReq("update_merges", u, w, s, code)
    /\ IF code = 200
       THEN /\ sheet' = [sheet EXCEPT !.merges = merges]
            /\ CreateTask(w, ConfigMsg(s, u))
       ELSE UNCHANGED <<sheet, bc>>
    /\ UNCHANGED <<rooms, conn, inbox, docVars, wsStatus, cells, changeLog, unflushed>>

\* PATCH /api/admin/workspaces/{workspace_id}/sheets/{sheet_id}/col-widths
update_ws_sheet_col_widths(u, w, s, col_widths) ==
    LET code == config_code(u, w, s) IN
    /\ lastReq' = ConfigReq("update_col_widths", u, w, s, code)
    /\ IF code = 200
       THEN /\ sheet' = [sheet EXCEPT !.col_widths = col_widths]
            /\ CreateTask(w, ConfigMsg(s, u))
       ELSE UNCHANGED <<sheet, bc>>
    /\ UNCHANGED <<rooms, conn, inbox, docVars, wsStatus, cells, changeLog, unflushed>>

(***************************************************************************)
(* Sorting the rows of a sheet by the values of one column.                *)
(***************************************************************************)
Digits == "0123456789"
Alphabet == "0123456789abcdefghijklmnopqrstuvwxyz"    \* in code point order

IsDigit(ch) == \E i \in 1..Len(Digits) : SubSeq(Digits, i, i) = ch

\* float(val) for the texts of decimal digits, blanks around them allowed;
\* it raises ValueError for the other texts (NotNumber).
NotNumber == 0 - 1

RECURSIVE DigitsValue(_, _)
DigitsValue(s, n) ==
    IF n = 0 THEN 0
    ELSE 10 * DigitsValue(s, n - 1)
         + ((CHOOSE i \in 1..Len(Digits) : SubSeq(Digits, i, i) = SubSeq(s, n, n)) - 1)

FloatOf(val) ==
    LET t == Strip(val) IN
    IF t # "" /\ \A i \in 1..Len(t) : IsDigit(SubSeq(t, i, i))
    THEN DigitsValue(t, Len(t)) ELSE NotNumber

\* The position of a character in the order of code points (0 when it is
\* not a digit or a lower-case letter).
Rank(ch) ==
    IF \E i \in 1..Len(Alphabet) : SubSeq(Alphabet, i, i) = ch
    THEN CHOOSE i \in 1..Len(Alphabet) : SubSeq(Alphabet, i, i) = ch
    ELSE 0

\* a < b for two str.
RECURSIVE StrLess(_, _)
StrLess(a, b) ==
    IF b = "" THEN FALSE
    ELSE IF a = "" THEN TRUE
    ELSE IF SubSeq(a, 1, 1) = SubSeq(b, 1, 1)
    THEN StrLess(SubSeq(a, 2, Len(a)), SubSeq(b, 2, Len(b)))
    ELSE Rank(SubSeq(a, 1, 1)) < Rank(SubSeq(b, 1, 1))

\* sort_key, lines 781-789: [last, num, text]: (1, "") for an empty value,
\* (0, float(val)) or (0, val.lower()) otherwise.
SortKey(val) ==
    IF val = "" THEN [last |-> 1, num |-> NotNumber, text |-> ""]
    ELSE IF FloatOf(val) # NotNumber THEN [last |-> 0, num |-> FloatOf(val), text |-> ""]
    ELSE [last |-> 0, num |-> NotNumber, text |-> Lower(val)]

\* A comparison of a float with a str: `<` raises TypeError.
Incomparable(a, b) ==
    a.last = 0 /\ b.last = 0 /\ (a.num = NotNumber) # (b.num = NotNumber)

\* a < b for two keys that can be compared.
KeyLess(a, b) ==
    IF a.last # b.last THEN a.last < b.last
    ELSE IF a.last = 1 THEN FALSE
    ELSE IF a.num # NotNumber THEN a.num < b.num
    ELSE StrLess(a.text, b.text)

\* `row_values[c.row_index] = c.value or ""` for the cells of the column.
RowValue(cs, col, ri) ==
    IF <<ri, col>> \in DOMAIN cs /\ cs[<<ri, col>>].value # None
    THEN cs[<<ri, col>>].value ELSE ""

\* `row_indices.sort(key=sort_key, reverse=not body.ascending)`: row ri, of
\* key a, comes before row rj, of key b.  The sort is stable, also reversed.
Before(a, b, ri, rj, ascending) ==
    IF ascending THEN KeyLess(a, b) \/ (~KeyLess(b, a) /\ ri < rj)
    ELSE KeyLess(b, a) \/ (~KeyLess(a, b) /\ ri < rj)

\* old_to_new: the new index of each row of 0 .. max_row.
OldToNew(cs, col, ascending) ==
    LET max_row == CHOOSE r \in {k[1] : k \in DOMAIN cs} :
                       \A k \in DOMAIN cs : k[1] <= r
        key(ri) == SortKey(RowValue(cs, col, ri))
    IN  [ri \in 0..max_row |->
            Cardinality({rj \in 0..max_row :
                            rj # ri /\ Before(key(rj), key(ri), rj, ri, ascending)})]

\* The sort raises TypeError: two rows of 0 .. max_row have keys that
\* cannot be compared.
SortRaises(cs, col) ==
    LET max_row == CHOOSE r \in {k[1] : k \in DOMAIN cs} :
                       \A k \in DOMAIN cs : k[1] <= r
    IN  \E ri, rj \in 0..max_row :
            Incomparable(SortKey(RowValue(cs, col, ri)), SortKey(RowValue(cs, col, rj)))

\* `old_to_new.get(ri, ri)`
NewRow(to, ri) == IF ri \in DOMAIN to THEN to[ri] ELSE ri

\* Lines 795-801: every cell goes to its new row plus OFFSET, flush, then
\* back by OFFSET, flush.  Each flush writes the rows one at a time.
SortWork(cs, col, ascending, unlucky) ==
    LET to == OldToNew(cs, col, ascending)
        to1 == [k \in DOMAIN cs |-> <<NewRow(to, k[1]) + StagingOffset, k[2]>>]
        c1 == Remapped(cs, to1)
        to2 == [k \in DOMAIN c1 |-> <<k[1] - StagingOffset, k[2]>>]
    IN  [cells |-> Remapped(c1, to2),
         fails |-> \/ Collides(cs, to1)
                   \/ Collides(c1, to2)
                   \/ unlucky /\ (MayCollide(cs, to1) \/ MayCollide(c1, to2))]

\* Lines 803-810: the row heights re-keyed.
\* A sort that leaves the row heights where they were.
SortedHeights_unmoved(rh, to) == rh

SortedHeights(rh, to) ==
    [r \in {NewRow(to, ri) : ri \in DOMAIN rh} |->
        rh[CHOOSE ri \in DOMAIN rh : NewRow(to, ri) = r]]

\* Lines 758-773: the loop over the merged ranges raises 400 at the first
\* range of several rows; a range that range_boundaries cannot read ends
\* the loop (`except Exception: pass`).
SortRefused(merges) ==
    \E i \in 1..Len(merges) :
        /\ \A j \in 1..i : Parses(merges[j])
        /\ merges[i].max_row > merges[i].min_row

SortReq(u, w, s, col, ascending, code, error) ==
    [op |-> "sort", actor |-> u, ws |-> w, sheet |-> s, col |-> col,
     ascending |-> ascending, code |-> code, error |-> error]

\* POST /api/workspaces/{workspace_id}/sheets/{sheet_id}/sort
sort_sheet(u, w, s, col_index, ascending, unlucky) ==
    LET code == struct_code(u, w, s)
        wk == SortWork(cells, col_index, ascending, unlucky)
        error == IF code # 200 THEN ""
                 ELSE IF SortRefused(sheet.merges) THEN "merged rows"
                 ELSE IF cells = << >> THEN ""
                 ELSE IF SortRaises(cells, col_index) THEN "TypeError"
                 ELSE IF wk.fails THEN "IntegrityError"
                 ELSE ""
        status == IF code # 200 THEN code
                  ELSE IF error = "merged rows" THEN 400
                  ELSE IF error # "" THEN 500
                  ELSE 200
    IN
    /\ lastReq' = SortReq(u, w, s, col_index, ascending, status, error)
    /\ IF status = 200 /\ cells # << >>
       THEN /\ cells' = wk.cells
            /\ sheet' = [sheet EXCEPT !.row_heights =
                            SortedHeights(@, OldToNew(cells, col_index, ascending))]
            /\ CreateTask(w, [type |-> "reload", updated_by |-> u])
       ELSE /\ cells' = RolledBack(cells, IF error = "IntegrityError" THEN wk.cells
                                          ELSE cells)
            /\ UNCHANGED <<sheet, bc>>
    /\ UNCHANGED <<rooms, conn, inbox, docVars, wsStatus, changeLog, unflushed>>

(***************************************************************************)
(* Initial state: an empty hub, no session, one open document at its       *)
(* first version, open workspaces with an empty sheet.                     *)
(***************************************************************************)
NoReq == [op |-> "none"]

InitHub ==
    /\ rooms = << >>
    /\ conn = [c \in Conns |-> NewConn]
    /\ bc = << >>
    /\ inbox = [c \in Conns |-> << >>]

\* The WorkspaceSheet row: the protection flag, the merged ranges, the row
\* heights and the column widths it was created with.
Sheet(protected, merges, row_heights, col_widths) ==
    [protected |-> protected, merges |-> merges, row_heights |-> row_heights,
     col_widths |-> col_widths]

InitSheet(sh) ==
    /\ doc = [status |-> "OPEN", version |-> InitialVersion]
    /\ saving = [a \in Actors |-> NoSave]
    /\ contents = (InitialVersion :> "a")
    /\ docLog = << >>
    /\ wsStatus = [w \in Workspaces |-> "OPEN"]
    /\ sheet = sh
    /\ cells = << >>
    /\ changeLog = << >>
    /\ unflushed = [c \in Conns |-> << >>]
    /\ lastReq = NoReq

InitRest == InitSheet(Sheet(FALSE, << >>, << >>, << >>))

HubInit == InitHub /\ InitRest

HubNext ==
    \/ \E c \in Conns, w \in Workspaces \cup {NoWorkspace} : ws_accept(c, w, "user")
    \/ \E c \in Conns, ok \in BOOLEAN : ws_welcome(c, ok)
    \/ \E c \in Conns : ws_close(c)
    \/ \E c \in Conns : net_break(c)
    \/ \E r \in Workspaces \cup {NoWorkspace}, m \in HubMsgs :
          Len(bc) < MaxCalls /\ http_publish(r, m)
    \/ \E c \in Conns, m \in HubMsgs : Len(bc) < MaxCalls /\ ws_publish(c, m)
    \/ \E i \in 1..Len(bc) : BroadcastSend(i)
    \/ \E i \in 1..Len(bc) : BroadcastCleanup(i)

SpecHub == HubInit /\ [][HubNext]_vars

(***************************************************************************)
(* The text document alone: saves, close and reopen.  Nobody is subscribed,*)
(* so every hub.broadcast of a save returns at once.                       *)
(***************************************************************************)
\* base_version values a client may send: stale, current, ahead
BaseVersions == {doc.version - 1, doc.version, doc.version + 1}

\* Saves, close and reopen of a document that starts at version v0; at most
\* MaxSaves saves commit.
DocSteps(v0) ==
    \/ \E u \in Actors, d \in {DocId, NoDoc}, content \in Contents, base \in BaseVersions :
          /\ base = doc.version => doc.version < v0 + MaxSaves
          /\ save_doc(u, d, content, base)
    \/ \E u \in Actors : admin_close_doc(u)
    \/ \E u \in Actors : admin_reopen_doc(u)

DocNext == DocSteps(InitialVersion)

SpecDoc == HubInit /\ [][DocNext]_vars

(***************************************************************************)
(* The same, from a document that has been saved KEEP_VERSIONS - 1 times   *)
(* (with the same text) since it was created.                              *)
(***************************************************************************)
RetentionInit ==
    /\ InitHub
    /\ doc = [status |-> "OPEN", version |-> KEEP_VERSIONS]
    /\ saving = [a \in Actors |-> NoSave]
    /\ contents = [v \in InitialVersion..KEEP_VERSIONS |-> "a"]
    /\ docLog = [k \in 1..(KEEP_VERSIONS - InitialVersion) |->
                   [user |-> "user", version |-> InitialVersion + k,
                    content_size |-> ContentSize("a")]]
    /\ wsStatus = [w \in Workspaces |-> "OPEN"]
    /\ sheet = Sheet(FALSE, << >>, << >>, << >>)
    /\ cells = << >>
    /\ changeLog = << >>
    /\ unflushed = [c \in Conns |-> << >>]
    /\ lastReq = NoReq

RetentionNext == DocSteps(KEEP_VERSIONS)

SpecRetention == RetentionInit /\ [][RetentionNext]_vars

(***************************************************************************)
(* The text document with its subscribers.                                 *)
(***************************************************************************)
DocHubNext ==
    \/ \E c \in 1..DocClients : textdoc_accept(c, DocId, "user")
    \/ \E c \in Conns, ok \in BOOLEAN : ws_welcome(c, ok)
    \/ \E c \in Conns : ws_close(c)
    \/ \E c \in Conns : net_break(c)
    \/ \E content \in Contents, base \in BaseVersions :
          Len(bc) < MaxCalls /\ save_doc("user", DocId, content, base)
    \/ \E i \in 1..Len(bc) : BroadcastSend(i)
    \/ \E i \in 1..Len(bc) : BroadcastCleanup(i)

SpecDocHub == HubInit /\ [][DocHubNext]_vars

(***************************************************************************)
(* Saves of the two actors in the two steps of the handler, with close and *)
(* reopen, which run on threads of the pool, between them.                 *)
(***************************************************************************)
RaceNext ==
    \/ \E u \in Actors, d \in {DocId, NoDoc}, content \in Contents, base \in BaseVersions :
          /\ base = doc.version => doc.version < InitialVersion + MaxSaves
          /\ save_check(u, d, content, base)
    \/ \E u \in Actors : save_commit(u)
    \/ \E u \in Actors : admin_close_doc(u)
    \/ \E u \in Actors : admin_reopen_doc(u)

SpecRace == HubInit /\ [][RaceNext]_vars

(***************************************************************************)
(* The sheet of workspace "w1" with its subscribers: patches through the   *)
(* three entry points, close and reopen of the workspace.  The patches     *)
(* submitted lie on and around the sheet's range: one inside, and one      *)
(* beyond each of its four edges.                                          *)
(***************************************************************************)
PatchClients == 2

EdgePatches ==
    {Patch(rc[1], rc[2], "x", None, None, None) :
        rc \in {<<0, 0>>, <<0 - 1, 0>>, <<MAX_ROWS, 0>>, <<0, 0 - 1>>, <<0, MAX_COLS>>}}

\* One patch, or the patch inside the range followed by one beyond the last
\* row or the last column.
EdgeBatches ==
    {<<p>> : p \in EdgePatches} \cup
    {<<Patch(0, 0, "x", None, None, None), Patch(rc[1], rc[2], "x", None, None, None)>> :
        rc \in {<<MAX_ROWS, 0>>, <<0, MAX_COLS>>}}

PatchNext ==
    \/ \E c \in 1..PatchClients : ws_accept(c, SheetWorkspace, "user")
    \/ \E c \in Conns : ws_welcome(c, TRUE)
    \/ \E c \in Conns : ws_close(c)
    \/ \E c \in Conns : net_break(c)
    \/ Len(bc) < MaxCalls /\ close_workspace("admin", SheetWorkspace)
    \/ Len(bc) < MaxCalls /\ reopen_workspace("admin", SheetWorkspace)
    \/ \E u \in Actors, patches \in EdgeBatches :
          Len(bc) < MaxCalls /\ http_patches(u, SheetWorkspace, SheetId, patches)
    \/ \E c \in Conns, p \in EdgePatches :
          Len(bc) < MaxCalls /\ handle_patch(c, SheetId, p)
    \/ \E c \in Conns, patches \in EdgeBatches :
          Len(bc) < MaxCalls /\ handle_batch_patch(c, SheetId, patches)
    \/ \E i \in 1..Len(bc) : TaskStart(i)
    \/ \E i \in 1..Len(bc) : BroadcastSend(i)
    \/ \E i \in 1..Len(bc) : BroadcastCleanup(i)

SpecPatch == HubInit /\ [][PatchNext]_vars

(***************************************************************************)
(* The sheet alone: hyperlinks set through the HTTP entry point (the       *)
(* WebSocket handlers do not read the hyperlink of a patch).  Nobody is    *)
(* subscribed, so a queued hub.broadcast returns as soon as it starts.     *)
(***************************************************************************)
LinkInputs ==
    {None, "", "https://example.com", "javascript:alert(1)", "HTTPS://Example.com",
     " #top ", "mailto:a@example.com", "ftp://example.com"}

LinkPatches ==
    {Patch(0, col, None, None, None, h) : col \in {0, 2}, h \in LinkInputs}

LinkNext ==
    \/ \E p \in LinkPatches :
          Len(bc) < MaxEdits /\ http_patches("user", SheetWorkspace, SheetId, <<p>>)
    \/ \E i \in 1..Len(bc) : TaskStart(i)

SpecLink == HubInit /\ [][LinkNext]_vars

(***************************************************************************)
(* The change log: one viewer on a WebSocket and the HTTP entry point      *)
(* patch one cell with the values None, "" and "x"; some patches carry     *)
(* only a style, some are passed over (a read-only column, a row out of    *)
(* range), and one batch adds the same new coordinate twice.               *)
(***************************************************************************)
LogPatches ==
    {Patch(0, 0, v, None, None, None) : v \in {"", "x"}} \cup
    {Patch(0, 0, None, "{}", None, None),
     Patch(0, 1, "x", None, None, None),
     Patch(0 - 1, 0, "x", None, None, None)}

LogBatches ==
    {<<p>> : p \in LogPatches} \cup
    {<<Patch(0, 0, "x", None, None, None), Patch(0, 0, "", None, None, None)>>,
     <<Patch(0, 1, "x", None, None, None), Patch(0, 0, "x", None, None, None)>>}

LogNext ==
    \/ ws_accept(1, SheetWorkspace, "user")
    \/ ws_welcome(1, TRUE)
    \/ \E u \in Actors, patches \in LogBatches :
          Len(bc) < MaxEdits /\ http_patches(u, SheetWorkspace, SheetId, patches)
    \/ \E p \in LogPatches :
          Len(bc) < MaxEdits /\ handle_patch(1, SheetId, p)
    \/ \E patches \in LogBatches :
          Len(bc) < MaxEdits /\ handle_batch_patch(1, SheetId, patches)
    \/ \E i \in 1..Len(bc) : TaskStart(i)
    \/ \E i \in 1..Len(bc) : BroadcastSend(i)
    \/ \E i \in 1..Len(bc) : BroadcastCleanup(i)

SpecLog == HubInit /\ [][LogNext]_vars

(***************************************************************************)
(* A protected sheet: a cell can be given the locked style, column 1 is    *)
(* read-only, and a user on a WebSocket and a user or an administrator on  *)
(* the HTTP entry point patch the locked cell, the read-only column and a  *)
(* plain cell.                                                             *)
(***************************************************************************)
ProtectedInit == InitHub /\ InitSheet(Sheet(TRUE, << >>, << >>, << >>))

ProtectedPatches ==
    {Patch(0, 0, None, LockedStyle, None, None)} \cup
    {Patch(0, col, "x", None, None, None) : col \in {0, 1, 2}}

ProtectedBatches ==
    {<<p>> : p \in ProtectedPatches} \cup
    {<<Patch(0, col, "y", None, None, None), Patch(0, 2, "y", None, None, None)>> :
        col \in {0, 1}}

ProtectedNext ==
    \/ ws_accept(1, SheetWorkspace, "user")
    \/ ws_welcome(1, TRUE)
    \/ \E u \in Actors, patches \in ProtectedBatches :
          Len(bc) < MaxEdits /\ http_patches(u, SheetWorkspace, SheetId, patches)
    \/ \E p \in ProtectedPatches :
          Len(bc) < MaxEdits /\ handle_patch(1, SheetId, p)
    \/ \E patches \in ProtectedBatches :
          Len(bc) < MaxEdits /\ handle_batch_patch(1, SheetId, patches)
    \/ \E i \in 1..Len(bc) : TaskStart(i)
    \/ \E i \in 1..Len(bc) : BroadcastSend(i)
    \/ \E i \in 1..Len(bc) : BroadcastCleanup(i)

SpecProtected == ProtectedInit /\ [][ProtectedNext]_vars

(***************************************************************************)
(* The structure of the sheet: a user patches cells in the first rows, in  *)
(* the last row and in a column beyond 10000 that a patch may create, and  *)
(* inserts and deletes rows and columns.  The sheet starts with the        *)
(* merged range A6:B7 and a height for row 5.  Nobody is subscribed.       *)
(***************************************************************************)
StructInit == InitHub /\ InitSheet(Sheet(FALSE, <<Merge(1, 6, 2, 7)>>, (5 :> 20), (0 :> 150)))

StructPatches ==
    {Patch(4, 0, "a", None, None, None), Patch(5, 0, "b", None, None, None),
     Patch(MAX_ROWS - 1, 0, "y", None, None, None),
     Patch(0, 10000, "z", None, None, None)}

\* <<row_index, count>> of RowInsertRequest; <<count, direction>> of
\* ColInsertRequest, at column 0.
RowInserts == {<<0, 0>>, <<5, 3>>, <<0, 200>>}
ColInserts == {<<1, "before">>, <<60, "after">>}

StructNext ==
    \/ \E p \in StructPatches :
          Len(bc) <= MaxEdits /\ http_patches("user", SheetWorkspace, SheetId, <<p>>)
    \/ \E body \in RowInserts, unlucky \in BOOLEAN :
          Len(bc) <= MaxEdits
          /\ insert_rows("user", SheetWorkspace, SheetId, body[1], body[2], unlucky)
    \/ \E indices \in {{}, {0}, {2, 5}}, unlucky \in BOOLEAN :
          Len(bc) <= MaxEdits
          /\ delete_rows("user", SheetWorkspace, SheetId, indices, unlucky)
    \/ \E body \in ColInserts, unlucky \in BOOLEAN :
          Len(bc) <= MaxEdits
          /\ insert_cols("user", SheetWorkspace, SheetId, 0, body[1], body[2], unlucky)
    \/ \E indices \in {{0}, {1, 3}}, unlucky \in BOOLEAN :
          Len(bc) <= MaxEdits
          /\ delete_cols("user", SheetWorkspace, SheetId, indices, unlucky)
    \/ \E i \in 1..Len(bc) : TaskStart(i)

SpecStruct == StructInit /\ [][StructNext]_vars

(***************************************************************************)
(* The five structural operations together, on known and unknown           *)
(* workspaces and sheets, with the administrator's merge list and close.   *)
(* The requests only: the queued broadcasts have not started yet.          *)
(***************************************************************************)
OpsInit == InitHub /\ InitSheet(Sheet(FALSE, <<Merge(1, 6, 2, 7)>>, (5 :> 20), (0 :> 150)))

OpsPatches ==
    {Patch(0, 0, "3", None, None, None), Patch(2, 0, "b", None, None, None),
     Patch(0, 10000, "z", None, None, None)}

\* A1:A3, the overlapping pair A1:B2 and B2:C3, the single cell A1:A1.
OpsMergeLists ==
    {<< >>, <<Merge(1, 1, 1, 3)>>, <<Merge(1, 1, 2, 2), Merge(2, 2, 3, 3)>>,
     <<Merge(1, 1, 1, 1)>>}

OpsNext ==
    \/ \E p \in OpsPatches :
          Len(bc) <= MaxEdits /\ http_patches("user", SheetWorkspace, SheetId, <<p>>)
    \/ \E w \in {SheetWorkspace, NoWorkspace}, s \in {SheetId, NoSheet},
          unlucky \in BOOLEAN :
          Len(bc) <= MaxEdits /\ insert_rows("user", w, s, 0, 1, unlucky)
    \/ \E w \in {SheetWorkspace, NoWorkspace}, s \in {SheetId, NoSheet},
          unlucky \in BOOLEAN :
          Len(bc) <= MaxEdits /\ delete_rows("user", w, s, {0}, unlucky)
    \/ \E w \in {SheetWorkspace, NoWorkspace}, s \in {SheetId, NoSheet},
          unlucky \in BOOLEAN :
          Len(bc) <= MaxEdits /\ insert_cols("user", w, s, 0, 1, "before", unlucky)
    \/ \E w \in {SheetWorkspace, NoWorkspace}, s \in {SheetId, NoSheet},
          unlucky \in BOOLEAN :
          Len(bc) <= MaxEdits /\ delete_cols("user", w, s, {0}, unlucky)
    \/ \E w \in {SheetWorkspace, NoWorkspace}, s \in {SheetId, NoSheet},
          ascending \in BOOLEAN, unlucky \in BOOLEAN :
          Len(bc) <= MaxEdits /\ sort_sheet("user", w, s, 0, ascending, unlucky)
    \/ \E merges \in OpsMergeLists :
          Len(bc) <= MaxEdits
          /\ update_ws_sheet_merges("admin", SheetWorkspace, SheetId, merges)
    \/ Len(bc) <= MaxEdits /\ close_workspace("admin", SheetWorkspace)

SpecOps == OpsInit /\ [][OpsNext]_vars

(***************************************************************************)
(* Subscribers whose peer stops reading.  The sheet's room and the         *)
(* document's room, a patch through each entry point and a save.  The      *)
(* event loop runs every coroutine that can go on: a queued call starts,   *)
(* a send that can complete does, a call whose loop is over returns.       *)
(***************************************************************************)
StallInit == InitHub /\ InitRest

StallClients == 2

StallPatch == Patch(0, 0, "x", None, None, None)

StallNext ==
    \/ \E c \in 1..StallClients : ws_accept(c, SheetWorkspace, "user")
    \/ \E c \in 1..StallClients : textdoc_accept(c, DocId, "user")
    \/ \E c \in Conns : ws_welcome(c, TRUE)
    \/ \E c \in Conns : net_stall(c)
    \/ \E c \in Conns : net_break(c)
    \/ \E c \in Conns :
          /\ Len(bc) < MaxCalls
          /\ conn[c].room \in Workspaces     \* a session of ws_endpoint
          /\ handle_patch(c, SheetId, StallPatch)
    \/ Len(bc) < MaxCalls
       /\ http_patches("user", SheetWorkspace, SheetId, <<StallPatch>>)
    \/ Len(bc) < MaxCalls /\ save_doc("user", DocId, "a", doc.version)
    \/ \E i \in 1..Len(bc) : TaskStart(i)
    \/ \E i \in 1..Len(bc) : BroadcastSend(i)
    \/ \E i \in 1..Len(bc) : BroadcastUnblock(i)
    \/ \E i \in 1..Len(bc) : BroadcastCleanup(i)

EventLoop ==
    \A i \in 1..MaxCalls :
        /\ WF_vars(TaskStart(i))
        /\ WF_vars(BroadcastSend(i))
        /\ WF_vars(BroadcastUnblock(i))
        /\ WF_vars(BroadcastCleanup(i))

SpecStall == StallInit /\ [][StallNext]_vars /\ EventLoop

(***************************************************************************)
(* Row deletes on a sheet with merged ranges of one and of several         *)
(* columns: A1:A2, B3:C5 and A7:A9.  The rows to delete are sent as lists, *)
(* in either order and with repeats.                                       *)
(***************************************************************************)
MergeInit ==
    InitHub /\ InitSheet(Sheet(FALSE,
                               <<Merge(1, 1, 1, 2), Merge(2, 3, 3, 5), Merge(1, 7, 1, 9)>>,
                               (1 :> 20 @@ 4 :> 30), << >>))

MergePatches ==
    {Patch(1, 0, "a", None, None, None), Patch(4, 1, "b", None, None, None)}

RowDeletes == {<<0>>, <<1>>, <<2, 3>>, <<3, 2>>, <<4, 2, 4>>, <<6, 7, 8>>, <<9>>}

MergeNext ==
    \/ \E p \in MergePatches :
          Len(bc) <= MaxEdits /\ http_patches("user", SheetWorkspace, SheetId, <<p>>)
    \/ \E body \in RowDeletes, unlucky \in BOOLEAN :
          Len(bc) <= MaxEdits
          /\ delete_rows("user", SheetWorkspace, SheetId, Indices(body), unlucky)
    \/ \E body \in {<<0, 1>>, <<3, 2>>} :
          Len(bc) <= MaxEdits
          /\ insert_rows("user", SheetWorkspace, SheetId, body[1], body[2], FALSE)
    \/ \E i \in 1..Len(bc) : TaskStart(i)

SpecMerge == MergeInit /\ [][MergeNext]_vars

(***************************************************************************)
(* Row inserts and deletes on a sheet with row heights, one of them on the *)
(* last row of the range.                                                  *)
(***************************************************************************)
HeightsInit ==
    InitHub /\ InitSheet(Sheet(FALSE, << >>, (5 :> 20 @@ (MAX_ROWS - 1) :> 40), << >>))

HeightsPatches ==
    {Patch(5, 0, "b", None, None, None), Patch(MAX_ROWS - 1, 0, "y", None, None, None)}

HeightsNext ==
    \/ \E p \in HeightsPatches :
          Len(bc) <= MaxEdits /\ http_patches("user", SheetWorkspace, SheetId, <<p>>)
    \/ \E body \in {<<0, 1>>, <<5, 3>>, <<6, 0>>}, unlucky \in BOOLEAN :
          Len(bc) <= MaxEdits
          /\ insert_rows("user", SheetWorkspace, SheetId, body[1], body[2], unlucky)
    \/ \E body \in {<<0>>, <<5>>, <<7, 2>>}, unlucky \in BOOLEAN :
          Len(bc) <= MaxEdits
          /\ delete_rows("user", SheetWorkspace, SheetId, Indices(body), unlucky)
    \/ \E i \in 1..Len(bc) : TaskStart(i)

SpecHeights == HeightsInit /\ [][HeightsNext]_vars

(***************************************************************************)
(* The five structural operations on a sheet with subscribers, the no-op   *)
(* requests included (no index to delete, no cell to sort).                *)
(***************************************************************************)
EventClients == 1

EventsInit == InitHub /\ InitRest

EventsPatches ==
    {Patch(0, 0, "2", None, None, None), Patch(1, 0, "1", None, None, None)}

EventsNext ==
    \/ \E c \in 1..EventClients : ws_accept(c, SheetWorkspace, "user")
    \/ \E c \in Conns : ws_welcome(c, TRUE)
    \/ \E p \in EventsPatches :
          Len(bc) < MaxEdits /\ http_patches("user", SheetWorkspace, SheetId, <<p>>)
    \/ \E s \in {SheetId, NoSheet} :
          Len(bc) < MaxEdits /\ insert_rows("user", SheetWorkspace, s, 0, 1, FALSE)
    \/ \E body \in {<< >>, <<0>>} :
          Len(bc) < MaxEdits
          /\ delete_rows("user", SheetWorkspace, SheetId, Indices(body), FALSE)
    \/ Len(bc) < MaxEdits
       /\ insert_cols("user", SheetWorkspace, SheetId, 0, 1, "before", FALSE)
    \/ Len(bc) < MaxEdits /\ delete_cols("user", SheetWorkspace, SheetId, {0}, FALSE)
    \/ \E ascending \in BOOLEAN :
          Len(bc) < MaxEdits
          /\ sort_sheet("user", SheetWorkspace, SheetId, 0, ascending, FALSE)
    \/ \E i \in 1..Len(bc) : TaskStart(i)
    \/ \E i \in 1..Len(bc) : BroadcastSend(i)
    \/ \E i \in 1..Len(bc) : BroadcastCleanup(i)

SpecEvents == EventsInit /\ [][EventsNext]_vars

(***************************************************************************)
(* Sorting: a user fills column 0 of the rows 0..2 with numbers and words, *)
(* leaving row 1 with or without a value, and sorts by column 0; the       *)
(* administrator stores lists of merged ranges.  Nobody is subscribed.     *)
(***************************************************************************)
SortInit == InitHub /\ InitSheet(Sheet(FALSE, << >>, (0 :> 30), << >>))

SortPatches ==
    {Patch(0, 0, "3", None, None, None), Patch(0, 0, "b", None, None, None),
     Patch(1, 0, "1", None, None, None), Patch(1, 2, "x", None, None, None),
     Patch(2, 0, "2", None, None, None), Patch(2, 0, "A", None, None, None)}

\* [], ["A1:B1"], ["A1:A3"] and ["?", "A1:A3"].
MergeLists ==
    {<< >>, <<Merge(1, 1, 2, 1)>>, <<Merge(1, 1, 1, 3)>>, <<BadRange, Merge(1, 1, 1, 3)>>}

SortNext ==
    \/ \E p \in SortPatches :
          Len(bc) <= MaxEdits /\ http_patches("user", SheetWorkspace, SheetId, <<p>>)
    \/ \E merges \in MergeLists :
          Len(bc) <= MaxEdits
          /\ update_ws_sheet_merges("admin", SheetWorkspace, SheetId, merges)
    \/ \E ascending \in BOOLEAN, unlucky \in BOOLEAN :
          Len(bc) <= MaxEdits
          /\ sort_sheet("user", SheetWorkspace, SheetId, 0, ascending, unlucky)
    \/ \E i \in 1..Len(bc) : TaskStart(i)

SpecSort == SortInit /\ [][SortNext]_vars

(***************************************************************************)
(* Properties of the hub.                                                  *)
(***************************************************************************)
Calls == 1..Len(bc)

InRoom(rs, c) == \E r \in DOMAIN rs : c \in rs[r]

\* A step in which call i of hub.broadcast runs its cleanup and returns.
CleanupStep(i) == i \in Calls /\ LoopDone(bc[i]) /\ bc'[i].pc = "done"

\* A step in which a call of hub.broadcast starts.
StartStep == Len(bc') = Len(bc) + 1

\* C1 (state part): no call of broadcast ends with an exception; when the
\* delivery pass of a call is over, every member of the room at the start of
\* the call other than exclude was either sent the message (it is in its
\* inbox) or is in dead because its send failed, and every member that is
\* still healthy was sent the message.
C1_Delivered ==
    \A i \in Calls :
        /\ bc[i].pc # "raised"
        /\ bc[i].got \cap bc[i].dead = {}
        /\ \A c \in bc[i].got :
              \E k \in 1..Len(inbox[c]) : inbox[c][k] = bc[i].msg
        /\ \A c \in bc[i].dead : ~conn[c].alive
        /\ LoopDone(bc[i]) =>
              \A c \in bc[i].members \ {bc[i].exclude} :
                  /\ c \in bc[i].got \cup bc[i].dead
                  /\ conn[c].alive => c \in bc[i].got

\* C1 (step part): the cleanup of a call removes from its room exactly the
\* connections whose send failed and touches no other room; a connection
\* that has left a room never enters a room again (only a WebSocket that was
\* never accepted before can be added); a call that starts sends only to
\* connections that are members of the room at that moment.
C1_Step ==
    /\ \A i \in Calls : CleanupStep(i) =>
          \A r \in DOMAIN rooms \cup DOMAIN rooms' \cup {bc[i].room} :
              RoomGet(rooms', r) = IF r = bc[i].room
                                   THEN RoomGet(rooms, r) \ bc[i].dead
                                   ELSE RoomGet(rooms, r)
    /\ \A c \in Conns : (InRoom(rooms', c) /\ ~InRoom(rooms, c)) => conn[c].st = "new"
    /\ StartStep =>
          bc'[Len(bc')].pending \subseteq RoomGet(rooms, bc'[Len(bc')].room)
    /\ \A i \in Calls, c \in Conns :
          bc'[i].sent[c] > bc[i].sent[c] => c \in bc[i].pending

\* C1: a failing send does not stop the broadcast; the failing connections,
\* and only they, are removed, and later broadcasts reach the healthy
\* members and not the removed ones.
C1_FailingSendIsolated == []C1_Delivered /\ [][C1_Step]_vars

\* C1 witness: connection 1 is still in its session but broken and was
\* removed from its room by the cleanup of the first call; the second call,
\* to the same room, has finished its delivery pass without connection 1 and
\* has reached two healthy members that joined after connection 1.
C1_Witness ==
    /\ Len(bc) = 2
    /\ bc[1].pc = "done"
    /\ LoopDone(bc[2])
    /\ conn[1].st \in {"open", "aborted"}
    /\ ~InRoom(rooms, 1)
    /\ bc[2].room = conn[1].room
    /\ 1 \notin bc[2].members
    /\ Cardinality(bc[2].got) >= 2

\* C2 (state part): a call sends at most once to a connection, only to
\* members of its room at its start, never to exclude; when its delivery pass
\* is over it has sent exactly once to each of them.
C2_Sent ==
    \A i \in Calls : \A c \in Conns :
        /\ bc[i].sent[c] <= 1
        /\ bc[i].sent[c] = 1 => (c \in bc[i].members /\ c # bc[i].exclude)
        /\ LoopDone(bc[i]) =>
              ((c \in bc[i].members /\ c # bc[i].exclude) => bc[i].sent[c] = 1)

\* C2 (step part): the members recorded for a call are the members of its
\* room when it starts; no step of a call changes another room, and sends
\* and starts change no room at all.
C2_Step ==
    /\ StartStep =>
          /\ rooms' = rooms
          /\ bc'[Len(bc')].members \subseteq RoomGet(rooms, bc'[Len(bc')].room)
          /\ Running(bc'[Len(bc')]) =>
                bc'[Len(bc')].members = RoomGet(rooms, bc'[Len(bc')].room)
    /\ \A i \in Calls :
          (Running(bc[i]) /\ bc'[i] # bc[i]) =>
              /\ \A r \in (DOMAIN rooms \cup DOMAIN rooms') \ {bc[i].room} :
                    /\ r \in DOMAIN rooms /\ r \in DOMAIN rooms'
                    /\ rooms'[r] = rooms[r]
              /\ ~CleanupStep(i) => rooms' = rooms

\* C2: broadcast(room, msg, exclude) sends msg exactly once to each member of
\* room at its start other than exclude, nothing to exclude or to members of
\* other rooms only, and changes the membership of no other room.
C2_ExactlyOncePerMember == []C2_Sent /\ [][C2_Step]_vars

\* C2 witness: a call that excludes a member of its room has finished its
\* delivery pass, having sent to another member, while a third connection
\* is a member of another room.
C2_Witness ==
    \E i \in Calls :
        /\ LoopDone(bc[i])
        /\ bc[i].exclude \in bc[i].members
        /\ \E c \in bc[i].members : bc[i].sent[c] = 1
        /\ \E r \in DOMAIN rooms : r # bc[i].room /\ rooms[r] \ bc[i].members # {}

\* C3: the room map never holds a room with an empty set of subscribers.
C3_NoEmptyRoom == \A r \in DOMAIN rooms : rooms[r] # {}

\* C3 witness: the map is empty again although a session that never calls
\* hub.disconnect exists: its room was emptied and deleted by the cleanup of
\* a broadcast.
C3_Witness ==
    /\ DOMAIN rooms = {}
    /\ \E c \in Conns : conn[c].st = "aborted"
    /\ \E i \in Calls : bc[i].pc = "done"

(***************************************************************************)
(* Properties of the text document.                                        *)
(***************************************************************************)
\* A step that handles a save request for the document.  (A request that is
\* rejected exactly like the one before it changes nothing at all.)
SaveStep == lastReq' # lastReq /\ lastReq'.op = "save" /\ lastReq'.id = DocId

\* The actor of the request may save in the status the document has.
MaySave == doc.status = "OPEN" \/ lastReq'.actor = "admin"

DocUnchanged == UNCHANGED <<doc, contents, docLog>>

NothingPublished == UNCHANGED <<bc, inbox, rooms>>

\* C4 (step part): a permitted save whose base_version is the current version
\* answers 200, makes the current version exactly one higher and stores the
\* submitted content as the snapshot of that version.
C4_Step ==
    (SaveStep /\ MaySave /\ lastReq'.base = doc.version) =>
        /\ lastReq'.code = 200
        /\ doc'.version = doc.version + 1
        /\ lastReq'.version = doc'.version
        /\ doc'.version \in DOMAIN contents'
        /\ contents'[doc'.version] = lastReq'.content
        /\ Len(docLog') = Len(docLog) + 1

\* C4 (state part): the committed versions, in the order of the history log,
\* are InitialVersion + 1, InitialVersion + 2, ... up to the current version:
\* strictly increasing, without gap or repetition.
C4_Log ==
    /\ \A k \in 1..Len(docLog) : docLog[k].version = InitialVersion + k
    /\ doc.version = InitialVersion + Len(docLog)

\* C4: a save on the current version commits version current + 1, and the
\* committed version numbers are gap-free and strictly increasing.
C4_VersionsGapFree == []C4_Log /\ [][C4_Step]_vars

\* C4 witness: three versions were committed (with different texts) and the
\* last request was a rejected save.
C4_Witness ==
    /\ Len(docLog) = 2
    /\ contents[doc.version] # contents[doc.version - 1]
    /\ lastReq.op = "save" /\ lastReq.code = 409

\* C5: a permitted save whose base_version differs from the current version
\* answers 409 with the current version and the content of that version, and
\* changes neither the document, its snapshots, its history nor the hub (no
\* broadcast is started); 409 is answered in no other case.
C5_Step ==
    /\ (SaveStep /\ MaySave /\ lastReq'.base # doc.version) =>
          /\ lastReq'.code = 409
          /\ lastReq'.version = doc.version
          /\ doc.version \in DOMAIN contents
          /\ lastReq'.body = contents[doc.version]
          /\ DocUnchanged
          /\ NothingPublished
    /\ (SaveStep /\ lastReq'.code = 409) => lastReq'.base # doc.version

C5_StaleSaveRejected == [][C5_Step]_vars

\* C5 witness: the document is at a later version with a text that differs
\* from its first, and the last save, with an older base, was answered 409
\* with that text.
C5_Witness ==
    /\ lastReq.op = "save" /\ lastReq.code = 409
    /\ lastReq.base < doc.version
    /\ doc.version > InitialVersion
    /\ lastReq.body = "b"
    /\ contents[InitialVersion] = "a"

\* C6: on a CLOSED document a save by a non-privileged actor answers 403
\* whatever its base_version and changes nothing; a save by a privileged
\* actor is decided by the version comparison alone.
C6_Step ==
    (SaveStep /\ doc.status = "CLOSED") =>
        IF lastReq'.actor = "user"
        THEN /\ lastReq'.code = 403
             /\ DocUnchanged
             /\ NothingPublished
        ELSE /\ lastReq'.code = IF lastReq'.base = doc.version THEN 200 ELSE 409
             /\ lastReq'.code = 200 => doc'.version = doc.version + 1

C6_ClosedSaveForbidden == [][C6_Step]_vars

\* C6 witness: the document is CLOSED and the last save, by a non-privileged
\* actor with a stale base_version, was answered 403.
C6_Witness ==
    /\ doc.status = "CLOSED"
    /\ lastReq.op = "save" /\ lastReq.code = 403
    /\ lastReq.actor = "user"
    /\ lastReq.base # doc.version

\* C7: at most KEEP_VERSIONS snapshots are retained, they are the highest
\* version numbers up to the current one without gap, and the snapshot of the
\* current version is among them: it holds the content of the last committed
\* save, and a conflict answer carries it.
C7_Retention ==
    /\ Cardinality(DOMAIN contents) <= KEEP_VERSIONS
    /\ DOMAIN contents =
          {v \in InitialVersion..doc.version : v > doc.version - KEEP_VERSIONS}
    /\ lastReq.op = "save" /\ lastReq.id = DocId /\ lastReq.code = 200 =>
          contents[doc.version] = lastReq.content
    /\ lastReq.op = "save" /\ lastReq.id = DocId /\ lastReq.code = 409 =>
          lastReq.body = contents[doc.version]

\* C7 witness: two saves beyond KEEP_VERSIONS were committed, the oldest
\* snapshots are gone, and a later conflict was answered with the current
\* content.
C7_Witness ==
    /\ doc.version = KEEP_VERSIONS + 2
    /\ InitialVersion + 1 \notin DOMAIN contents
    /\ Cardinality(DOMAIN contents) = KEEP_VERSIONS
    /\ lastReq.op = "save" /\ lastReq.code = 409 /\ lastReq.body = "b"

\* C8 (step part): a successful save starts exactly one call of
\* hub.broadcast: to the room of the document, excluding nobody, with a
\* doc_updated message that carries the new version and the submitted
\* content, addressed to every member of the room; no other step of the
\* document's handlers starts a call.
C8_Step ==
    /\ (SaveStep /\ lastReq'.code = 200) =>
          /\ Len(bc') = Len(bc) + 1
          /\ \A i \in 1..Len(bc) : bc'[i] = bc[i]
          /\ LET t == bc'[Len(bc')]
                 members == RoomGet(rooms, "textdoc:d1") IN
             IF members = {} THEN t.pc = "done"
             ELSE /\ Running(t)
                  /\ t.room = "textdoc:d1"
                  /\ t.exclude = NoConn
                  /\ t.pending = members
                  /\ t.msg.type = "doc_updated"
                  /\ t.msg.version = doc'.version
                  /\ t.msg.content = lastReq'.content
    /\ ~(SaveStep /\ lastReq'.code = 200) => Len(bc') = Len(bc)

\* C8 (state part): when the delivery pass of a call is over, every healthy
\* connection that was subscribed when the call started has the message in
\* its inbox.
C8_Received ==
    \A i \in Calls :
        LoopDone(bc[i]) =>
            \A c \in bc[i].members :
                conn[c].alive => \E k \in 1..Len(inbox[c]) : inbox[c][k] = bc[i].msg

\* C8: every successful save publishes exactly one doc_updated event with the
\* new version and content to the document's room, nobody excluded, and the
\* subscribed clients receive it.
C8_SavePublished == []C8_Received /\ [][C8_Step]_vars

\* C8 witness: two clients are subscribed to the document and healthy, and
\* both have received the doc_updated event of the save that committed
\* version 2 with the text "b".
C8_Witness ==
    /\ doc.version = InitialVersion + 1
    /\ contents[doc.version] = "b"
    /\ \A c \in 1..2 :
          /\ conn[c].st = "open" /\ conn[c].alive
          /\ Len(inbox[c]) = 1
          /\ inbox[c][1] = DocUpdated(InitialVersion + 1, "b", "user")

(***************************************************************************)
(* Properties of the patch entry points.                                   *)
(***************************************************************************)
PatchOps == {"http_patches", "patch", "batch_patch"}

\* A step that handles a patch request.
PatchStep == lastReq' # lastReq /\ lastReq'.op \in PatchOps

OutOfRange(p) == ~(0 <= p.row /\ p.row < MAX_ROWS) \/ ~(0 <= p.col /\ p.col < MAX_COLS)

\* C9: after a patch request through any of the three entry points, no patch
\* of the request whose row is outside [0, MAX_ROWS) or whose column is
\* outside [0, MAX_COLS) is in the applied list, and no cell exists at its
\* coordinate.
C9_OutOfRangeOmitted ==
    lastReq.op \in PatchOps =>
        \A i \in 1..Len(lastReq.patches) :
            LET p == lastReq.patches[i] IN
            OutOfRange(p) =>
                /\ \A j \in 1..Len(lastReq.applied) :
                      <<lastReq.applied[j].row, lastReq.applied[j].col>> # <<p.row, p.col>>
                /\ <<p.row, p.col>> \notin DOMAIN cells

\* C10: while the workspace is CLOSED, a patch request of a non-privileged
\* actor through any entry point is refused as a whole (403 over HTTP, the
\* error 'Workspace is closed' on a WebSocket): no cell and no change-log row
\* is written and no call of hub.broadcast is made.
C10_Step ==
    (PatchStep /\ lastReq'.ws \in Workspaces /\ wsStatus[lastReq'.ws] = "CLOSED"
               /\ lastReq'.actor = "user") =>
        /\ IF lastReq'.op = "http_patches" THEN lastReq'.code = 403
           ELSE lastReq'.error = "Workspace is closed"
        /\ lastReq'.applied = << >>
        /\ UNCHANGED <<cells, changeLog, unflushed>>
        /\ UNCHANGED <<bc, inbox>>

C10_ClosedPatchFails == [][C10_Step]_vars

\* C10 witness: connection 1, of a non-privileged actor, was opened while the
\* workspace was OPEN, the workspace was closed after that, and a batch_patch
\* on connection 1 with a patch inside the range was refused.
C10_Witness ==
    /\ wsStatus[SheetWorkspace] = "CLOSED"
    /\ conn[1].st = "open" /\ conn[1].user = "user" /\ conn[1].loaded = "OPEN"
    /\ lastReq.op = "batch_patch" /\ lastReq.conn = 1
    /\ lastReq.patches[1].row = 0 /\ lastReq.patches[1].col = 0
    /\ lastReq.error = "Workspace is closed"
    /\ cells = << >>

(***************************************************************************)
(* Properties of the hyperlinks.                                           *)
(***************************************************************************)
\* The last request was an HTTP patch request that was committed.
HttpDone == lastReq.op = "http_patches" /\ lastReq.code = 200

\* C11 as stated: every stored hyperlink is absent or begins with http://,
\* https://, mailto: or #; after a patch that submits a hyperlink, the cell
\* holds the submitted string when that string begins with one of the four,
\* and no hyperlink otherwise.
C11_StoredAsSubmitted ==
    /\ \A k \in DOMAIN cells :
          cells[k].hyperlink # None =>
              \E proto \in {"http://", "https://", "mailto:", "#"} :
                  Len(cells[k].hyperlink) >= Len(proto)
                  /\ SubSeq(cells[k].hyperlink, 1, Len(proto)) = proto
    /\ HttpDone =>
          \A i \in 1..Len(lastReq.applied) :
              LET h == lastReq.patches[i].hyperlink
                  k == <<lastReq.patches[i].row, lastReq.patches[i].col>>
                  allowed == \E proto \in {"http://", "https://", "mailto:", "#"} :
                                Len(h) >= Len(proto) /\ SubSeq(h, 1, Len(proto)) = proto
              IN  h # None => cells[k].hyperlink = IF allowed THEN h ELSE None

\* C11 as amended: every stored hyperlink is absent or begins, letter case
\* ignored, with http://, https://, mailto: or #; after a patch that submits
\* a hyperlink, the cell holds the submitted string without its surrounding
\* blanks when that begins (letter case ignored) with one of the four, and no
\* hyperlink otherwise.
C11_StoredSchemeAllowed ==
    /\ \A k \in DOMAIN cells :
          cells[k].hyperlink # None =>
              \E proto \in {"http://", "https://", "mailto:", "#"} :
                  Len(cells[k].hyperlink) >= Len(proto)
                  /\ Lower(SubSeq(cells[k].hyperlink, 1, Len(proto))) = proto
    /\ HttpDone =>
          \A i \in 1..Len(lastReq.applied) :
              LET h == lastReq.patches[i].hyperlink
                  k == <<lastReq.patches[i].row, lastReq.patches[i].col>>
                  t == IF h = None THEN None ELSE Strip(h)
                  allowed == \E proto \in {"http://", "https://", "mailto:", "#"} :
                                Len(t) >= Len(proto)
                                /\ Lower(SubSeq(t, 1, Len(proto))) = proto
              IN  h # None => cells[k].hyperlink = IF allowed THEN t ELSE None

\* C11 witness: one cell holds https://example.com, and the last patch, on the
\* other cell, submitted javascript:alert(1) and left that cell without a
\* hyperlink.
C11_Witness ==
    /\ <<0, 0>> \in DOMAIN cells /\ <<0, 2>> \in DOMAIN cells
    /\ cells[<<0, 0>>].hyperlink = "https://example.com"
    /\ HttpDone
    /\ lastReq.patches[1].col = 2
    /\ lastReq.patches[1].hyperlink = "javascript:alert(1)"
    /\ cells[<<0, 2>>].hyperlink = None

\* C12: each entry of the applied list of a committed HTTP patch request
\* carries the hyperlink stored for its cell, and no batch_patch event of a
\* call to the hub carries a hyperlink that the scheme check discards.
C12_AppliedHyperlinkStored ==
    /\ HttpDone =>
          \A i \in 1..Len(lastReq.applied) :
              LET e == lastReq.applied[i] IN
              lastReq.patches[i].hyperlink # None =>
                  e.hyperlink = cells[<<e.row, e.col>>].hyperlink
    /\ \A n \in 1..Len(bc) :
          bc[n].msg.type = "batch_patch" =>
              \A i \in 1..Len(bc[n].msg.patches) :
                  LET h == bc[n].msg.patches[i].hyperlink IN
                  h = None \/ \E proto \in {"http://", "https://", "mailto:", "#"} :
                                 Len(h) >= Len(proto)
                                 /\ Lower(SubSeq(h, 1, Len(proto))) = proto

(***************************************************************************)
(* Properties of the change log.                                           *)
(***************************************************************************)
\* The entries a list of applied patches is to leave in the log, given the
\* values the cells held before the first of them: <<row, col, old, new>>.
RECURSIVE ValueChanges(_, _, _)
ValueChanges(vals, applied, i) ==
    IF i > Len(applied) THEN << >>
    ELSE LET e == applied[i]
             k == <<e.row, e.col>>
             old == IF k \in DOMAIN vals THEN vals[k] ELSE None
             new == IF e.value = None THEN old ELSE e.value
             rest == ValueChanges([x \in DOMAIN vals \cup {k} |->
                                      IF x = k THEN new ELSE vals[x]], applied, i + 1)
         IN  IF new # old THEN <<(<<e.row, e.col, old, new>>)>> \o rest ELSE rest

\* A step that handles a patch request, a repeated one included.
PatchHandled ==
    lastReq'.op \in PatchOps /\ (lastReq' # lastReq \/ Len(bc') > Len(bc))

\* C13: a patch request appends to the change log one entry, with the value
\* stored just before and the new value, for each applied patch that changes
\* the stored value of its cell (None and "" are different values), in order,
\* and nothing else; no step changes or removes an entry of the log.
C13_Step ==
    LET values == [k \in DOMAIN cells |-> cells[k].value]
        changes == ValueChanges(values, lastReq'.applied, 1)
    IN  IF PatchHandled
        THEN /\ Len(changeLog') = Len(changeLog) + Len(changes)
             /\ SubSeq(changeLog', 1, Len(changeLog)) = changeLog
             /\ \A i \in 1..Len(changes) :
                   LET l == changeLog'[Len(changeLog) + i] IN
                   /\ <<l.row_index, l.col_index, l.old_value, l.new_value>> = changes[i]
                   /\ l.user_id = lastReq'.actor
                   /\ l.sheet_id = lastReq'.sheet
                   /\ l.workspace_id = lastReq'.ws
        ELSE changeLog' = changeLog

C13_LogOfValueChanges == [][C13_Step]_vars

\* C13 witness: the log holds the change from absent to "" and then the
\* change from "" to "x" of one cell, and the last request, a style-only
\* patch of that cell, was applied.
C13_Witness ==
    /\ Len(changeLog) = 2
    /\ changeLog[1].old_value = None /\ changeLog[1].new_value = ""
    /\ changeLog[2].old_value = "" /\ changeLog[2].new_value = "x"
    /\ lastReq.op \in PatchOps
    /\ Len(lastReq.applied) = 1
    /\ lastReq.applied[1].value = None /\ lastReq.applied[1].style = "{}"

(***************************************************************************)
(* Properties of the events of patch requests.                             *)
(***************************************************************************)
\* C14: a patch request that applies at least one patch makes one call to
\* the hub for the room of the workspace, and the call delivers to every
\* connection of the room, the connection of the request included; a patch
\* request that applies nothing makes no call.
C14_Step ==
    PatchHandled =>
        IF lastReq'.applied # << >>
        THEN /\ Len(bc') = Len(bc) + 1
             /\ LET t == bc'[Len(bc')]
                    room == RoomGet(rooms, lastReq'.ws)
                IN  \/ t.pc = "scheduled" /\ t.room = lastReq'.ws /\ t.exclude = NoConn
                    \/ t.pc = "send" /\ t.room = lastReq'.ws /\ t.pending = room
                    \/ room = {}
        ELSE bc' = bc

C14_PublishedToAll == [][C14_Step]_vars

(***************************************************************************)
(* Properties of protected cells.                                          *)
(***************************************************************************)
\* C15: on each entry point, a patch by an actor without privilege on a
\* read-only column, or on a cell stored with the locked style while the
\* sheet is protected, is not in the applied list, leaves its cell as it was
\* and adds no entry to the log for its cell; every other patch of a request
\* that succeeds is in the applied list, the same patches by an
\* administrator included.
C15_Step ==
    PatchHandled =>
        \A i \in 1..Len(lastReq'.patches) :
            LET p == lastReq'.patches[i]
                k == <<p.row, p.col>>
                guarded ==
                    /\ lastReq'.actor # "admin"
                    /\ \/ p.col \in ReadonlyCols
                       \/ /\ sheet.protected
                          /\ k \in DOMAIN cells
                          /\ cells[k].style = LockedStyle
            IN  IF guarded
                THEN /\ \A n \in 1..Len(lastReq'.applied) :
                           <<lastReq'.applied[n].row, lastReq'.applied[n].col>> # k
                     /\ (k \in DOMAIN cells') = (k \in DOMAIN cells)
                     /\ k \in DOMAIN cells => cells'[k] = cells[k]
                     /\ \A n \in (Len(changeLog) + 1)..Len(changeLog') :
                           <<changeLog'[n].row_index, changeLog'[n].col_index>> # k
                ELSE lastReq'.error = "" =>
                        \E n \in 1..Len(lastReq'.applied) :
                           <<lastReq'.applied[n].row, lastReq'.applied[n].col>> = k

C15_GuardedPatchSkipped == [][C15_Step]_vars

(***************************************************************************)
(* Properties of inserted and deleted rows and columns.                    *)
(***************************************************************************)
\* A step in which the request op was committed.
Committing(op) == lastReq'.op = op /\ lastReq'.code = 200 /\ Len(bc') > Len(bc)

\* The cells of cs, each with the index of axis replaced by to[index].
Renumbered(cs, axis, to) ==
    [k2 \in {[k EXCEPT ![axis] = to[@]] : k \in DOMAIN cs} |->
        cs[CHOOSE k \in DOMAIN cs : [k EXCEPT ![axis] = to[@]] = k2]]

\* The cells of cs with every index >= at of axis raised by count.
Raised(cs, axis, at, count) ==
    Renumbered(cs, axis,
               [i \in {k[axis] : k \in DOMAIN cs} |-> IF i >= at THEN i + count ELSE i])

\* C16: a committed row insert at index at with effective count n leaves
\* every cell of a row >= at at row + n, with its column and content, and
\* every cell of a row < at where it was.
C16_Step ==
    Committing("row_insert") => cells' = Raised(cells, 1, lastReq'.at, lastReq'.count)

C16_RowsShiftedDown == [][C16_Step]_vars

\* C17: a committed column insert at index c with effective count k leaves
\* every cell of a column >= c at column + k and every other cell where it
\* was, and leaves no cell at a negative column.
C17_Step ==
    Committing("col_insert") =>
        /\ cells' = Raised(cells, 2, lastReq'.at, lastReq'.count)
        /\ (\A k \in DOMAIN cells : k[2] >= 0) => \A k \in DOMAIN cells' : k[2] >= 0

C17_ColumnsShiftedRight == [][C17_Step]_vars

\* C18: no statement of a row or column insert or delete puts a cell on a
\* coordinate that another cell holds: no such request ends with the
\* IntegrityError of the uniqueness constraint.
C18_NoCollision ==
    lastReq.op \in {"row_insert", "row_delete", "col_insert", "col_delete"} =>
        lastReq.error # "IntegrityError"

\* C19: a committed row delete of the rows D removes the cells of the rows
\* of D and leaves every other cell of row r at row r - |{d \in D : d < r}|,
\* with its column and content; no two of them end on one coordinate.
C19_Step ==
    Committing("row_delete") =>
        LET D == lastReq'.indices
            kept == [k \in {x \in DOMAIN cells : x[1] \notin D} |-> cells[k]]
            to == [r \in {k[1] : k \in DOMAIN kept} |->
                      r - Cardinality({d \in D : d < r})]
        IN  /\ cells' = Renumbered(kept, 1, to)
            /\ Cardinality(DOMAIN cells') = Cardinality(DOMAIN kept)

C19_RowsShiftedUp == [][C19_Step]_vars

\* C20: whenever every cell of the sheet is in a row of [0, MAX_ROWS), a row
\* insert at index at with count k followed by the row delete of
\* at .. at+k-1 gives back the cells as they were, for at in the first and
\* the last rows and k = 1 and k = 100.
C20_InsertDeleteRoundTrip ==
    (\A x \in DOMAIN cells : InRows(x[1])) =>
        \A at \in {0, 5, MAX_ROWS - 1}, k \in {1, ROW_INSERT_MAX} :
            LET inserted == InsertWork(cells, 1, at, InsertCount(k, ROW_INSERT_MAX), FALSE)
                deleted == DeleteWork(inserted.cells, 1, at..(at + k - 1), FALSE)
            IN  ~inserted.fails /\ ~deleted.fails /\ deleted.cells = cells

(***************************************************************************)
(* Properties of sessions that end.                                        *)
(***************************************************************************)
\* C27: a call to the hub whose delivery pass is in progress (it has sent to
\* a member already) makes no send to a connection whose session has
\* completed hub.disconnect, and a call that starts after the disconnect
\* does not have the connection among the members it sends to.
C27_Step ==
    /\ \A i \in 1..Len(bc) : \A c \in Conns :
          /\ i <= Len(bc')
          /\ bc'[i].sent[c] > bc[i].sent[c]
          /\ \E d \in Conns \ {c} : bc[i].sent[d] > 0
          => conn[c].st # "closed"
    /\ Len(bc') > Len(bc) =>
          \A c \in bc'[Len(bc')].pending : conn[c].st # "closed"

C27_NoSendAfterDisconnect == [][C27_Step]_vars

\* C28: no connection whose session handler has returned is a member of a
\* room.
C28_FinishedSessionLeftRoom ==
    \A c \in Conns :
        conn[c].st \in {"closed", "aborted", "rejected"} =>
            \A w \in Workspaces : c \notin RoomGet(rooms, w)

(***************************************************************************)
(* Properties of the sort.                                                 *)
(***************************************************************************)
\* A step that handles a sort request.
SortHandled == lastReq'.op = "sort" /\ (lastReq' # lastReq \/ Len(bc') > Len(bc))

\* C21: a sort request on a sheet with a merged range of more than one row
\* is refused with an error, and no cell, row height or merged range changes
\* and no call to the hub is made.
C21_Step ==
    (SortHandled /\ \E i \in 1..Len(sheet.merges) :
                        sheet.merges[i].max_row > sheet.merges[i].min_row) =>
        /\ lastReq'.code = 400
        /\ cells' = cells /\ sheet' = sheet /\ bc' = bc

C21_MergedRowsRefuseSort == [][C21_Step]_vars

\* The rows of 0 .. the last row of cs with a value in column col that is
\* neither absent nor empty.
FilledRows(cs, col) ==
    {k[1] : k \in {x \in DOMAIN cs : x[2] = col /\ cs[x].value \notin {None, ""}}}

\* C22: after a committed sort by a column, ascending or descending, every
\* row without a value in the column is below every row with one.
C22_Step ==
    (SortHandled /\ lastReq'.code = 200 /\ cells # << >>) =>
        LET last == CHOOSE r \in {k[1] : k \in DOMAIN cells'} :
                        \A k \in DOMAIN cells' : k[1] <= r
            filled == FilledRows(cells', lastReq'.col)
        IN  \A r \in filled, e \in (0..last) \ filled : r < e

C22_EmptyRowsLast == [][C22_Step]_vars

\* C23: on a sheet without a merged range of several rows a sort request
\* succeeds whatever the column holds, and afterwards the values of the
\* column read down the rows are in the order of the keys (numbers by value,
\* other texts without regard to letter case), reversed when descending.
C23_Step ==
    (SortHandled /\ ~\E i \in 1..Len(sheet.merges) :
                        sheet.merges[i].max_row > sheet.merges[i].min_row) =>
        /\ lastReq'.code = 200
        /\ \A r1, r2 \in FilledRows(cells', lastReq'.col) :
              r1 < r2 =>
                 LET k1 == SortKey(cells'[<<r1, lastReq'.col>>].value)
                     k2 == SortKey(cells'[<<r2, lastReq'.col>>].value)
                 IN  IF lastReq'.ascending THEN ~KeyLess(k2, k1) ELSE ~KeyLess(k1, k2)

C23_SortSucceedsOrdered == [][C23_Step]_vars

\* The entries of the size map m with every key >= at raised by count.
RaisedKeys(m, at, count) ==
    [k2 \in {IF k >= at THEN k + count ELSE k : k \in DOMAIN m} |->
        m[CHOOSE k \in DOMAIN m : (IF k >= at THEN k + count ELSE k) = k2]]

\* The entries of the size map m without the keys in gone, every other key
\* lowered by the number of keys of gone below it.
LoweredKeys(m, gone) ==
    [k2 \in {k - Cardinality({g \in gone : g < k}) : k \in DOMAIN m \ gone} |->
        m[CHOOSE k \in DOMAIN m \ gone : k - Cardinality({g \in gone : g < k}) = k2]]

\* C30: a committed column insert at index c with effective count k re-keys
\* every column-width entry whose key is >= c to key + k; a committed column
\* delete of a set D drops the width entries of the columns in D and lowers
\* every other key by the number of deleted columns below it.
C30_Step ==
    /\ Committing("col_insert") =>
          sheet'.col_widths = RaisedKeys(sheet.col_widths, lastReq'.at, lastReq'.count)
    /\ Committing("col_delete") =>
          sheet'.col_widths = LoweredKeys(sheet.col_widths, lastReq'.indices)

C30_ColumnWidthsFollowColumns == [][C30_Step]_vars

StructOps == {"row_insert", "row_delete", "col_insert", "col_delete", "sort"}

\* The step is a structural request that ended in an error.
StructFailed ==
    /\ lastReq'.op \in StructOps
    /\ lastReq'.code # 200
    /\ \/ lastReq' # lastReq
       \/ <<cells, sheet, changeLog>>' # <<cells, sheet, changeLog>>
       \/ Len(bc') # Len(bc)

\* C24: a structural operation (row/column insert, row/column delete, sort)
\* that ends in an error - unknown workspace or sheet, closed workspace
\* without privilege, sort rejection, failure part-way through - leaves the
\* cells, the merge ranges, the row heights and the change log as they were
\* and publishes no event.
C24_Step ==
    StructFailed => /\ cells' = cells
                    /\ sheet' = sheet
                    /\ changeLog' = changeLog
                    /\ bc' = bc

C24_FailedOperationChangesNothing == [][C24_Step]_vars

\* A structural request has failed part-way through on a sheet with cells.
C24_Witness ==
    /\ lastReq.op \in StructOps
    /\ lastReq.code = 500
    /\ lastReq.error = "IntegrityError"
    /\ cells # << >>

SingleCell(m) == m.min_col = m.max_col /\ m.min_row = m.max_row

Overlap(a, b) ==
    /\ a.min_col <= b.max_col /\ b.min_col <= a.max_col
    /\ a.min_row <= b.max_row /\ b.min_row <= a.max_row

\* C29: after any sequence of merge-list updates and row/column inserts and
\* deletes, every stored merge range spans more than one cell and no two
\* stored merge ranges of the sheet overlap.
C29_MergesDisjoint ==
    /\ \A i \in 1..Len(sheet.merges) : ~SingleCell(sheet.merges[i])
    /\ \A i, j \in 1..Len(sheet.merges) :
          i # j => ~Overlap(sheet.merges[i], sheet.merges[j])

\* The peer of the open connection c reads what it is sent.
Healthy(c) == conn[c].st = "open" /\ conn[c].alive /\ ~conn[c].stalled

\* A call that has started still has c on its list.
Owed(c) == \E i \in 1..Len(bc) : Waiting(bc[i]) /\ c \in bc[i].pending

\* C25: in a broadcast to a room with several subscribers, a send to one
\* subscriber that blocks and never completes does not keep the message from
\* the others: every healthy member the call has to send to is eventually
\* sent the message.
C25_HealthyMemberIsSent ==
    \A c \in Conns : (Owed(c) /\ Healthy(c)) ~> (~Owed(c) \/ ~Healthy(c))

\* The handler that started the call waits for it: save_doc and the two
\* WebSocket patch handlers `await hub.broadcast(...)`.
Awaited(t) == t.origin # NoConn \/ t.msg.type = "doc_updated"

\* C26: a mutating operation returns to its caller once its state is
\* committed, even if the send of its event to some subscriber blocks and
\* never completes: the call of hub.broadcast its handler waits for returns.
C26_MutationReturns ==
    \A i \in 1..MaxCalls :
        (Len(bc) >= i /\ Waiting(bc[i]) /\ Awaited(bc[i]))
            ~> (Len(bc) >= i /\ ~Waiting(bc[i]))

\* The range m with every bound of axis whose 0-based index is >= at raised
\* by count.
RaisedRange(m, axis, at, count) ==
    WithBounds(m, axis,
               IF Low(m, axis) - 1 >= at THEN Low(m, axis) + count ELSE Low(m, axis),
               IF High(m, axis) - 1 >= at THEN High(m, axis) + count ELSE High(m, axis))

\* What a committed insert on axis owes with the effective count it reports:
\* the count is in 1..most, the event carries it, and the cells, the merge
\* ranges and (for rows) the row heights are shifted by it.
InsertedBy(axis, most) ==
    LET at == lastReq'.at
        k == lastReq'.count
    IN  /\ k \in 1..most
        /\ bc'[Len(bc')].msg.count = k
        /\ cells' = Raised(cells, axis, at, k)
        /\ sheet'.merges = [i \in DOMAIN sheet.merges |->
                               RaisedRange(sheet.merges[i], axis, at, k)]
        /\ axis = 1 => sheet'.row_heights = RaisedKeys(sheet.row_heights, at, k)

\* C31: for every requested count a committed row insert applies an effective
\* count in [1, 100] and a committed column insert one in [1, 50]; cells,
\* merge ranges and row heights are shifted by exactly that count, and the
\* response and the published event report it.
C31_Step ==
    /\ Committing("row_insert") => InsertedBy(1, 100)
    /\ Committing("col_insert") => InsertedBy(2, 50)

C31_EffectiveCountApplied == [][C31_Step]_vars

\* The 0-based rows of the range m that are not in D, and the index of row r
\* once the rows of D are gone.
Survivors(m, D) == {r \in (m.min_row - 1)..(m.max_row - 1) : r \notin D}

NewIndex(r, D) == r - Cardinality({d \in D : d < r})

\* The range m over the re-indexed rows of its span that survive D.
Shrunk(m, D) ==
    LET rows == {NewIndex(r, D) : r \in Survivors(m, D)} IN
    [m EXCEPT !.min_row = 1 + (CHOOSE r \in rows : \A q \in rows : r <= q),
              !.max_row = 1 + (CHOOSE r \in rows : \A q \in rows : q <= r)]

\* The ranges of merges with a surviving row, each over its surviving rows.
SurvivingMerges(merges, D) ==
    LET Survives(m) == Survivors(m, D) # {}
        kept == SelectSeq(merges, Survives)
    IN  [i \in DOMAIN kept |-> Shrunk(kept[i], D)]

\* C32 as stated: after a committed row delete of D every merge range covers
\* exactly the re-indexed surviving rows of its span; a range all of whose
\* rows are in D is dropped and no other.
C32_Step_asStated ==
    Committing("row_delete") =>
        sheet'.merges = SurvivingMerges(sheet.merges, lastReq'.indices)

C32_MergesCoverSurvivors == [][C32_Step_asStated]_vars

\* C32: after a committed row delete of D every merge range with a surviving
\* row covers exactly the re-indexed surviving rows of its span, unless what
\* is left of it is a single cell: such a range is dropped, like a range all
\* of whose rows are in D.  The rows of D count once, in whatever order and
\* however often they were sent.
C32_Step ==
    Committing("row_delete") =>
        LET Several(m) == ~SingleCell(m) IN
        sheet'.merges =
            SelectSeq(SurvivingMerges(sheet.merges, lastReq'.indices), Several)

C32_MergesCoverSurvivorsUnlessOneCell == [][C32_Step]_vars

\* A row delete has committed that left one cell of the range A1:A2 and
\* moved the two ranges below it up.
C32_Witness ==
    /\ lastReq.op = "row_delete" /\ lastReq.code = 200
    /\ lastReq.indices = {0}
    /\ sheet.merges = <<Merge(2, 2, 3, 4), Merge(1, 6, 1, 8)>>

\* Every cell of a row with a height entry is, with its column and content,
\* on the row to[r] its entry was re-keyed to.
CellsFollow(to) ==
    \A k \in DOMAIN cells :
        k[1] \in DOMAIN to =>
            /\ <<to[k[1]], k[2]>> \in DOMAIN cells'
            /\ cells'[<<to[k[1]], k[2]>>] = cells[k]

\* C33: a committed row insert at index a with effective count k re-keys each
\* row-height entry with key >= a to key + k and keeps the others; a
\* committed row delete of D drops the entries whose key is in D and re-keys
\* every other entry r to r - |{d in D : d < r}|; in both cases the cells of
\* a row with a height entry end on the row index of that entry.
C33_Step ==
    LET rh == sheet.row_heights
        at == lastReq'.at
        D == lastReq'.indices
    IN
    /\ Committing("row_insert") =>
          /\ sheet'.row_heights = RaisedKeys(rh, at, lastReq'.count)
          /\ CellsFollow([r \in DOMAIN rh |->
                             IF r >= at THEN r + lastReq'.count ELSE r])
    /\ Committing("row_delete") =>
          /\ sheet'.row_heights = LoweredKeys(rh, D)
          /\ CellsFollow([r \in DOMAIN rh \ D |-> NewIndex(r, D)])

C33_HeightsFollowRows == [][C33_Step]_vars

\* The step is a structural request that was answered with success.
StructDone ==
    /\ lastReq'.op \in StructOps
    /\ lastReq'.code = 200
    /\ lastReq' # lastReq \/ Len(bc') # Len(bc)

EventType(op) == IF op = "sort" THEN "reload" ELSE op

\* The step queues one call to the hub: the event of the request of
\* lastReq', for the room of its workspace, excluding nobody.
OneEvent ==
    /\ Len(bc') = Len(bc) + 1
    /\ SubSeq(bc', 1, Len(bc)) = bc
    /\ LET t == bc'[Len(bc')] IN
          /\ t.pc = "scheduled"
          /\ t.room = lastReq'.ws
          /\ t.exclude = NoConn
          /\ t.msg.type = EventType(lastReq'.op)

\* A structural event is queued only by the step of a successful structural
\* request, which is the step that commits.
QueuedByCommit ==
    (Len(bc') > Len(bc)
     /\ bc'[Len(bc')].msg.type \in {EventType(op) : op \in StructOps})
        => lastReq'.op \in StructOps /\ lastReq'.code = 200

\* C34 as stated: each successful row insert, row delete, column insert,
\* column delete and sort publishes exactly one event of its type to the
\* workspace room with no connection excluded, and only after the commit.
C34_Step_asStated == (StructDone => OneEvent) /\ QueuedByCommit

C34_OneEventPerSuccess == [][C34_Step_asStated]_vars

\* The request had nothing to do: no index to delete, or no cell to sort.
NothingToDo ==
    \/ lastReq'.op \in {"row_delete", "col_delete"} /\ lastReq'.indices = {}
    \/ lastReq'.op = "sort" /\ cells = << >>

\* C34: each successful row insert, row delete, column insert, column delete
\* and sort that had something to do publishes exactly one event of its type
\* to the workspace room with no connection excluded, in the step that
\* commits; a successful request with nothing to do (an empty list of
\* indices, a sort of a sheet without cells) publishes none.
C34_Step ==
    /\ StructDone => IF NothingToDo THEN bc' = bc ELSE OneEvent
    /\ QueuedByCommit

C34_OneEventPerMutation == [][C34_Step]_vars

\* The subscriber has been sent the reload event of a sort and the event of
\* a row insert.
C34_Witness ==
    /\ \E i \in DOMAIN inbox[1] : inbox[1][i].type = "reload"
    /\ \E i \in DOMAIN inbox[1] : inbox[1][i].type = "row_insert"

\* The one-to-one maps of the rows 0..last onto themselves.
RowBijections(last) ==
    {f \in [0..last -> 0..last] : \A a, b \in 0..last : f[a] = f[b] => a = b}

\* The sort has committed and re-indexed rows.
Sorted == lastReq'.op = "sort" /\ lastReq'.code = 200 /\ Len(bc') > Len(bc)

\* C35: a successful sort re-indexes the rows 0..maxRow by a bijection: the
\* number of cells is unchanged, every cell keeps its column and its
\* content, two cells are on the same row after the sort exactly when they
\* were before, and each row-height entry ends on the new index of its row.
C35_Step ==
    Sorted =>
        LET last == MaxOf({k[1] : k \in DOMAIN cells})
            rh == sheet.row_heights
        IN  \E f \in RowBijections(last) :
                LET g == [r \in (0..last) \cup DOMAIN rh |->
                             IF r \in 0..last THEN f[r] ELSE r]
                IN  /\ Cardinality(DOMAIN cells') = Cardinality(DOMAIN cells)
                    /\ \A k \in DOMAIN cells :
                          /\ <<g[k[1]], k[2]>> \in DOMAIN cells'
                          /\ cells'[<<g[k[1]], k[2]>>] = cells[k]
                    /\ DOMAIN sheet'.row_heights = {g[r] : r \in DOMAIN rh}
                    /\ \A r \in DOMAIN rh : sheet'.row_heights[g[r]] = rh[r]

C35_SortIsBijection == [][C35_Step]_vars

\* A sort has moved the first row, with its cell and its height, to the
\* second and the two cells of the second row to the first.
C35_Witness ==
    /\ lastReq.op = "sort" /\ lastReq.code = 200
    /\ sheet.row_heights = (1 :> 30)
    /\ {<<1, 0>>, <<0, 0>>, <<0, 2>>} \subseteq DOMAIN cells
    /\ cells[<<1, 0>>].value = "3"
    /\ cells[<<0, 2>>].value = "x"


(***************************************************************************)
(* Saves racing with each other and with close.                            *)
(***************************************************************************)
InFlight == {a \in Actors : saving[a] # NoSave}

VersionCommitted == docLog' # docLog \/ contents' # contents \/ doc'.version # doc.version

SaveAnswered == lastReq' # lastReq /\ lastReq'.op = "save"

C36_Step ==
    /\ VersionCommitted =>
          /\ SaveAnswered /\ lastReq'.code = 200
          /\ lastReq'.base = doc.version
          /\ doc'.version = doc.version + 1
          /\ lastReq'.version = doc'.version
          /\ doc'.version \notin DOMAIN contents
          /\ contents'[doc'.version] = lastReq'.content
          /\ \A v \in DOMAIN contents \cap DOMAIN contents' : contents'[v] = contents[v]
          /\ docLog' = Append(docLog, [user |-> lastReq'.actor,
                                       version |-> doc'.version,
                                       content_size |-> ContentSize(lastReq'.content)])
    /\ (SaveAnswered /\ lastReq'.id = DocId /\ lastReq'.code # 403
         /\ lastReq'.base # doc.version) =>
          /\ lastReq'.code = 409
          /\ lastReq'.version = doc.version
          /\ ~VersionCommitted

C36_Inv ==
    /\ Cardinality(InFlight) <= 1
    /\ \A a \in InFlight : saving[a].base = doc.version /\ saving[a].version = doc.version
    /\ \A k \in 1..Len(docLog) : docLog[k].version = InitialVersion + k
    /\ doc.version = InitialVersion + Len(docLog)

\* C36: of two saves with the same base_version one commits, making the
\* version exactly one higher, and the other is answered 409: between a
\* save's check of base_version and its commit no other save checks or
\* commits, every commit is made on the version its request named, and no
\* committed content is overwritten.
C36_SavesSerialized == []C36_Inv /\ [][C36_Step]_vars

\* C36 witness: the user's save on the first version committed, and the
\* administrator's save with a different text on that same base version was
\* answered 409; the committed text stands.
C36_Witness ==
    /\ Len(docLog) = 1 /\ docLog[1].user = "user"
    /\ doc.version = InitialVersion + 1
    /\ lastReq.op = "save" /\ lastReq.actor = "admin"
    /\ lastReq.base = InitialVersion /\ lastReq.code = 409
    /\ lastReq.content # contents[doc.version]

C37_Step ==
    /\ (VersionCommitted /\ lastReq'.actor = "user") => doc.status = "OPEN"
    /\ doc'.status # doc.status =>
          \/ doc.status = "OPEN" /\ doc'.status = "CLOSED"
          \/ doc.status = "CLOSED" /\ doc'.status = "OPEN"

C37_Status == doc.status \in {"OPEN", "CLOSED"}

\* C37: while the document is CLOSED no save of a non-privileged actor
\* commits a version, a save that had passed its status check before the
\* close included; the status is OPEN or CLOSED and changes only from OPEN
\* to CLOSED and from CLOSED to OPEN.
C37_NoCommitWhileClosed ==
    []C37_Status /\ [][C37_Step]_vars


\* C38: every stored cell has a row index in 0..MAX_ROWS-1 and a column
\* index in 0..MAX_COLS-1 after any sequence of in-range patches, inserts and
\* deletes: none is left at a negative staging index, none is pushed beyond
\* the bounds the patches enforce.
C38_CellsInBounds ==
    \A k \in DOMAIN cells :
        /\ 0 <= k[1] /\ k[1] < MAX_ROWS
        /\ 0 <= k[2] /\ k[2] < MAX_COLS


(***************************************************************************)
(* Batches with more than one patch for one coordinate.                    *)
(***************************************************************************)
\* The patches of a batch that the sheet takes from actor u.
Takes(p, u) == InRows(p.row) /\ InCols(p.col)
               /\ ~(p.col \in ReadonlyCols /\ ~is_admin_or_above(u))

SameCoordinate(patches, u) ==
    \E i, j \in 1..Len(patches) :
        /\ i < j /\ Coord(patches[i]) = Coord(patches[j])
        /\ Takes(patches[i], u) /\ Takes(patches[j], u)

\* Field f of the cell at k after the first i patches of the batch, applied
\* in order to a cell that held old.
RECURSIVE InBatchOrder(_, _, _, _, _, _)
InBatchOrder(patches, u, k, f, old, i) ==
    IF i = 0 THEN old
    ELSE LET before == InBatchOrder(patches, u, k, f, old, i - 1)
             p == patches[i]
         IN  IF Coord(p) = k /\ Takes(p, u) /\ p[f] # None THEN p[f] ELSE before

C39_Step ==
    (/\ lastReq' # lastReq /\ lastReq'.op = "http_patches"
     /\ lastReq'.code \notin {403, 404}
     /\ SameCoordinate(lastReq'.patches, lastReq'.actor)) =>
        /\ lastReq'.code = 200
        /\ \A i \in 1..Len(lastReq'.patches) :
              LET p == lastReq'.patches[i]
                  k == Coord(p)
              IN  Takes(p, lastReq'.actor) =>
                    /\ k \in DOMAIN cells'
                    /\ \A f \in {"value", "style"} :
                          cells'[k][f] =
                              InBatchOrder(lastReq'.patches, lastReq'.actor, k, f,
                                           IF k \in DOMAIN cells THEN cells[k][f] ELSE None,
                                           Len(lastReq'.patches))

\* C39: a batch with two or more patches for one in-range coordinate, a
\* coordinate without a cell included, is answered without error; the cell
\* of each coordinate of the batch holds the fields of its patches applied
\* in batch order, the other coordinates of the batch included.
C39_SameCoordinateBatch == [][C39_Step]_vars


(***************************************************************************)
(* The order in which a subscriber is sent the events of one room.         *)
(***************************************************************************)
\* The doc_updated events of an inbox arrive in increasing version order.
DocOrder(c) ==
    \A i, j \in 1..Len(inbox[c]) :
        (/\ i < j
         /\ inbox[c][i].type = "doc_updated"
         /\ inbox[c][j].type = "doc_updated") =>
            inbox[c][i].version < inbox[c][j].version

\* A later call of hub.broadcast on a room has sent to a connection that an
\* earlier call on that room still has to send to.
Overtaken ==
    \E i, j \in 1..Len(bc), c \in Conns :
        /\ i < j
        /\ bc[i].room = bc[j].room
        /\ c \in bc[j].got
        /\ c \in bc[i].pending

\* C40: each subscriber of a document room is sent the doc_updated events in
\* strictly increasing version order, also when a save commits and publishes
\* while the call of the save before it is still sending; the events of two
\* mutations of a workspace reach each subscriber in commit order.
C40_EventsInOrder == (\A c \in Conns : DocOrder(c)) /\ ~Overtaken

====
